---- MODULE Spec2Model ----
(***************************************************************************)
(* Authentication and session core of the Imagify backend                  *)
(* (backend/app/api/routes/auth_routes.py, user_routes.py, utils/*.py,     *)
(* app/models.py).  The database is two tables, users and refresh_tokens;  *)
(* every request handler is one action that reads the tables, raises an    *)
(* HTTPException (nothing is persisted) or commits its writes.             *)
(*                                                                         *)
(* Time is an integer clock.  One-time codes live CodeTtl ticks and        *)
(* refresh tokens RefreshTtl ticks (15 minutes and 14 days in the code).   *)
(* Access tokens are JWTs held by callers: access is the set of user ids   *)
(* for which one was issued, and a request says whether the token it       *)
(* carries has passed its exp claim.                                       *)
(*                                                                         *)
(* Requests run one after the other except in SpecConcurrent, where login  *)
(* and register are split at the point between their last read and their   *)
(* commit: inflight holds the requests that have read, with what they read *)
(* and what they are about to write.                                       *)
(*                                                                         *)
(* Notifications are background tasks: a handler adds them to the          *)
(* BackgroundTasks of its request, FastAPI attaches them to the response   *)
(* the handler returns and runs them in order once that response is sent.  *)
(* outbox holds the task lists of the responses sent and not yet worked    *)
(* off, smtp the position of the running _send_email call.  Only the       *)
(* specifications whose requests set mail keep the outbox.                 *)
(***************************************************************************)
EXTENDS Integers, Sequences, FiniteSets, TLC

\* ------------------------------------------------------------------------
\* Bounds of the model
\* ------------------------------------------------------------------------
MaxUsers == 2      \* user ids ever allocated (uuid4 primary keys, never reused)
MaxTokens == 3     \* refresh-token values ever generated (uuid4, never repeated)
MaxTime == 3       \* last clock value
NumCodes == 2      \* how many of the 900000 six-digit codes the model draws
CodeTtl == 1       \* lifetime of a one-time code, in ticks
RefreshTtl == 2    \* lifetime of a refresh token, in ticks
MaxInflight == 2   \* requests that have read and not yet committed
MaxOutbox == 1     \* responses whose background tasks have not run yet
MaxRetries == 3    \* largest retries argument _send_email is called with

\* ------------------------------------------------------------------------
\* Values
\* ------------------------------------------------------------------------
NULL == -1                       \* SQL NULL of an integer / timestamp column
NoStr == "NULL"                  \* SQL NULL of a string column
NoHash == <<>>                   \* SQL NULL of hashed_password
CodeMin == 100000
Codes == CodeMin .. (CodeMin + NumCodes - 1)
Ids == 1 .. MaxUsers
Times == 0 .. MaxTime
TokenValues == 1 .. MaxTokens
ProviderLocal == "local"
ProviderGoogle == "google"
Passwords == {"Passw0rd1", "Passw0rd2"}
Ips == {"10.0.0.1"}
Devices == {"okhttp"}

\* Emails are character sequences; "A" is the upper case of "a", " " is blank.
RawEmails == { <<"a", "@", "x">>, <<"A", "@", "x">>, <<"b", "@", "x">>,
               <<"b", "@", "X">> }
\* Usernames are <<base, k>>: <<s, 0>> is the string s, <<s, k>> is s_k.
Usernames == { <<<<"a">>, 0>>, <<<<"b", "o", "b">>, 0>> }

Unused == [slot |-> "unused"]    \* id not allocated yet
Deleted == [slot |-> "deleted"]  \* row deleted; the id is never reused

VARIABLES users, tokens, now, ntok, access, last, inflight, outbox, smtp
vars == <<users, tokens, now, ntok, access, last, inflight, outbox, smtp>>

\* ------------------------------------------------------------------------
\* Pure helpers
\* ------------------------------------------------------------------------
LowerChar(c) == IF c = "A" THEN "a" ELSE IF c = "B" THEN "b"
                ELSE IF c = "X" THEN "x" ELSE c

Lower(s) == [i \in DOMAIN s |-> LowerChar(s[i])]

RECURSIVE LStrip(_)
LStrip(s) == IF s # <<>> /\ Head(s) = " " THEN LStrip(Tail(s)) ELSE s

RECURSIVE RStrip(_)
RStrip(s) == IF s # <<>> /\ s[Len(s)] = " "
             THEN RStrip(SubSeq(s, 1, Len(s) - 1)) ELSE s

Strip(s) == RStrip(LStrip(s))

\* str.strip() and len() of a username <<base, k>>
StripUsername(n) == <<Strip(n[1]), n[2]>>

UsernameLen(n) == Len(n[1]) + (IF n[2] = 0 THEN 0 ELSE 2)

NoUsername == <<<<>>, 0>>        \* payload.username absent or empty

AtIndex(s) == IF \E i \in DOMAIN s : s[i] = "@"
              THEN CHOOSE i \in DOMAIN s :
                     s[i] = "@" /\ \A j \in 1 .. (i - 1) : s[j] # "@"
              ELSE Len(s) + 1

\* pydantic EmailStr: strips, keeps the local part, lower-cases the domain
EmailStr(s) == LET e == Strip(s)
                   k == AtIndex(e)
               IN  SubSeq(e, 1, k - 1) \o Lower(SubSeq(e, k, Len(e)))

\* (mutation) the email keeps its letter case
NormalizeEmail_KeepsCase(s) == Strip(s)

\* email.lower().strip()
NormalizeEmail(s) == Strip(Lower(s))

LocalPart(e) == SubSeq(e, 1, AtIndex(e) - 1)

hash_password(p) == <<"bcrypt", p>>

\* (mutation) an account without a hash accepts any password
verify_password_AcceptsNoHash(plain, hashed) ==
    hashed = NoHash \/ hashed[2] = plain

verify_password(plain, hashed) == hashed # NoHash /\ hashed[2] = plain

IsUser(us, i) == us[i] # Unused /\ us[i] # Deleted

Live(us) == {i \in Ids : IsUser(us, i)}

\* db.query(User).filter(User.email == email): the matching rows
ByEmail(us, email) == {i \in Live(us) : us[i].email = email}

ByUsername(us, name) == {i \in Live(us) : us[i].username = name}

RowsOf(ts, uid) == {r \in ts : r.user_id = uid}

RowsWithToken(ts, tok) == {r \in ts : r.token = tok}

\* (mutation) users.username and users.email are not unique columns
UniqueConstraints_NoUserKeys(us, ts) ==
    /\ \A r, s \in ts :
         r # s => r.user_id # s.user_id /\ r.token # s.token
    /\ \A r \in ts : r.user_id \in Live(us)

\* unique=True on users.username, users.email, refresh_tokens.user_id
\* (uq_refresh_user) and refresh_tokens.token; FK refresh_tokens.user_id
UniqueConstraints(us, ts) ==
    /\ \A i, j \in Live(us) :
         i # j => us[i].username # us[j].username /\ us[i].email # us[j].email
    /\ \A r, s \in ts :
         r # s => r.user_id # s.user_id /\ r.token # s.token
    /\ \A r \in ts : r.user_id \in Live(us)

NewUser(username, email, hashed, verified, provider, code, expires) ==
    [ username |-> username, email |-> email, hashed_password |-> hashed,
      is_verified |-> verified, is_active |-> TRUE, provider |-> provider,
      verification_code |-> code, verification_expires_at |-> expires,
      reset_code |-> NULL, reset_expires_at |-> NULL, reset_verified |-> FALSE,
      last_login_ip |-> NoStr, last_login_device |-> NoStr,
      google_sub |-> NoStr, google_picture |-> NoStr,
      last_google_id_token |-> NoStr ]

\* What a handler hands back: its response, the tables it would commit, the
\* user it resolved (0: none), the code or refresh token of the request (arg),
\* the refresh token of the response (tok) and the one it overwrote or
\* deleted (old).
Out(res, us, ts, uid, arg) ==
    [res |-> res, users |-> us, tokens |-> ts, uid |-> uid, arg |-> arg,
     tok |-> 0, old |-> 0]

\* TokenResponse(..., refresh_token=tok) after the upsert that replaced old
TokenResponse(out, tok, old) == [out EXCEPT !.tok = tok, !.old = old]

Fail(res, uid, arg) == Out(res, users, tokens, uid, arg)

\* Query.first() over a filter with no ORDER BY: any matching row, 0 if none
First(S) == IF S = {} THEN {0} ELSE S

NoRow == [slot |-> "none"]       \* .first() of a refresh_tokens query: None

FirstRow(S) == IF S = {} THEN {NoRow} ELSE S

\* the smallest id not allocated yet (uuid4 default of users.id), 0 if none
FreshId == IF \E i \in Ids : users[i] = Unused
           THEN CHOOSE i \in Ids :
                  users[i] = Unused /\ \A j \in Ids : users[j] = Unused => i <= j
           ELSE 0

\* (mutation) the generator repeats its first value
create_refresh_token_Repeats == IF ntok < 2 THEN 1 ELSE ntok + 1

\* jwt_utils.create_refresh_token: a value never generated before
create_refresh_token == ntok + 1

\* jwt_utils.get_refresh_expiry
get_refresh_expiry == now + RefreshTtl

\* the token of the row the upsert finds (existing.token), 0 if it finds none
ExistingToken(ts, uid) ==
    IF RowsOf(ts, uid) = {} THEN 0 ELSE (CHOOSE r \in RowsOf(ts, uid) : TRUE).token

\* (mutation) the existing row is not looked up: always db.add(RefreshToken(...))
UpsertRefreshToken_AlwaysAdd(ts, uid, tok, exp) ==
    ts \cup {[user_id |-> uid, token |-> tok, expires_at |-> exp]}

\* (mutation) a user without a row gets none
UpsertRefreshToken_NoInsert(ts, uid, tok, exp) ==
    {IF r.user_id = uid THEN [r EXCEPT !.token = tok, !.expires_at = exp]
     ELSE r : r \in ts}

\* the read-then-write of the user's refresh-token row in login / google
UpsertRefreshToken(ts, uid, tok, exp) ==
    IF RowsOf(ts, uid) # {}
    THEN {IF r.user_id = uid THEN [r EXCEPT !.token = tok, !.expires_at = exp]
          ELSE r : r \in ts}
    ELSE ts \cup {[user_id |-> uid, token |-> tok, expires_at |-> exp]}

\* ------------------------------------------------------------------------
\* Handlers, as functions of the tables and the request
\* ------------------------------------------------------------------------
\* (mutation) registering again starts the verification of the account over
register_user_ResetsVerified(username, rawEmail, password, code, id) ==
    LET email == NormalizeEmail(EmailStr(rawEmail))
        existing == ByEmail(users, email)
    IN  IF existing # {}
        THEN LET e == CHOOSE i \in existing : TRUE
             IN  Out("ok",
                     [users EXCEPT ![e].verification_code = code,
                                   ![e].verification_expires_at = now + CodeTtl,
                                   ![e].is_verified = FALSE],
                     tokens, e, code)
        ELSE Out("ok",
                 [users EXCEPT ![id] = NewUser(StripUsername(username), email,
                                               hash_password(password), FALSE,
                                               ProviderLocal, code, now + CodeTtl)],
                 tokens, id, code)

\* (mutation) a re-registration also stores its username and password
register_user_Overwrites(username, rawEmail, password, code, id) ==
    LET email == NormalizeEmail(EmailStr(rawEmail))
        existing == ByEmail(users, email)
    IN  IF existing # {}
        THEN LET e == CHOOSE i \in existing : TRUE
             IN  IF users[e].is_verified
                 THEN Fail("email_already_verified", e, 0)
                 ELSE Out("ok",
                          [users EXCEPT ![e].verification_code = code,
                                        ![e].verification_expires_at = now + CodeTtl,
                                        ![e].username = StripUsername(username),
                                        ![e].hashed_password = hash_password(password)],
                          tokens, e, code)
        ELSE Out("ok",
                 [users EXCEPT ![id] = NewUser(StripUsername(username), email,
                                               hash_password(password), FALSE,
                                               ProviderLocal, code, now + CodeTtl)],
                 tokens, id, code)

\* (mutation) a verified account is given a new code like an unverified one
register_user_RecodesVerified(username, rawEmail, password, code, id) ==
    LET email == NormalizeEmail(EmailStr(rawEmail))
        existing == ByEmail(users, email)
    IN  IF existing # {}
        THEN LET e == CHOOSE i \in existing : TRUE
             IN  Out("ok",
                     [users EXCEPT ![e].verification_code = code,
                                   ![e].verification_expires_at = now + CodeTtl],
                     tokens, e, code)
        ELSE Out("ok",
                 [users EXCEPT ![id] = NewUser(StripUsername(username), email,
                                               hash_password(password), FALSE,
                                               ProviderLocal, code, now + CodeTtl)],
                 tokens, id, code)

register_user(username, rawEmail, password, code, id) ==
    LET email == NormalizeEmail(EmailStr(rawEmail))
        existing == ByEmail(users, email)
    IN  IF existing # {}
        THEN LET e == CHOOSE i \in existing : TRUE
             IN  IF users[e].is_verified
                 THEN Fail("email_already_verified", e, 0)
                 ELSE Out("ok",
                          [users EXCEPT ![e].verification_code = code,
                                        ![e].verification_expires_at = now + CodeTtl],
                          tokens, e, code)
        ELSE Out("ok",
                 [users EXCEPT ![id] = NewUser(StripUsername(username), email,
                                               hash_password(password), FALSE,
                                               ProviderLocal, code, now + CodeTtl)],
                 tokens, id, code)

\* rows of users with verification_code == code and expires_at > utcnow()
VerifyEmailMatches(code) ==
    {i \in Live(users) : /\ users[i].verification_code = code
                         /\ users[i].verification_expires_at # NULL
                         /\ users[i].verification_expires_at > now}

verify_email(code, user) ==
    IF user = 0 THEN Fail("invalid_verification_code", 0, code)
    ELSE IF users[user].is_verified THEN Fail("already_verified", user, code)
    ELSE Out("ok",
             [users EXCEPT ![user].is_verified = TRUE,
                           ![user].verification_code = NULL,
                           ![user].verification_expires_at = NULL],
             tokens, user, code)

resend_verification_code(rawEmail, code) ==
    LET found == ByEmail(users, EmailStr(rawEmail))
    IN  IF found = {} THEN Fail("no_pending_verification", 0, 0)
        ELSE LET u == CHOOSE i \in found : TRUE
             IN  IF users[u].is_verified
                 THEN Fail("no_pending_verification", u, 0)
                 ELSE Out("ok",
                          [users EXCEPT ![u].verification_code = code,
                                        ![u].verification_expires_at = now + CodeTtl],
                          tokens, u, code)

\* auth_utils.get_user_by_email: the user, or 0 for the 404
get_user_by_email(rawEmail) ==
    LET found == ByEmail(users, NormalizeEmail(rawEmail))
    IN  IF found = {} THEN 0 ELSE CHOOSE i \in found : TRUE

\* auth_utils.ensure_local_account / ensure_user_active: TRUE when they pass
ensure_local_account(u) == users[u].provider = ProviderLocal

\* (mutation) the is_active flag is not looked at
ensure_user_active_Ignored(u) == TRUE

ensure_user_active(u) == users[u].is_active

\* (mutation) the is_verified check is missing
login_user_NoVerifiedCheck(rawEmail, password, ip, device) ==
    LET u == get_user_by_email(EmailStr(rawEmail))
    IN  IF u = 0 THEN Fail("user_not_found", 0, 0)
        ELSE IF ~ensure_local_account(u) THEN Fail("google_account", u, 0)
        ELSE IF ~ensure_user_active(u) THEN Fail("disabled", u, 0)
        ELSE IF ~verify_password(password, users[u].hashed_password)
             THEN Fail("invalid_password", u, 0)
        ELSE TokenResponse(
                 Out("ok",
                     [users EXCEPT ![u].last_login_ip = ip,
                                   ![u].last_login_device = device],
                     UpsertRefreshToken(tokens, u, create_refresh_token,
                                        get_refresh_expiry),
                     u, 0),
                 create_refresh_token, ExistingToken(tokens, u))

login_user(rawEmail, password, ip, device) ==
    LET u == get_user_by_email(EmailStr(rawEmail))
    IN  IF u = 0 THEN Fail("user_not_found", 0, 0)
        ELSE IF ~ensure_local_account(u) THEN Fail("google_account", u, 0)
        ELSE IF ~ensure_user_active(u) THEN Fail("disabled", u, 0)
        ELSE IF ~verify_password(password, users[u].hashed_password)
             THEN Fail("invalid_password", u, 0)
        ELSE IF ~users[u].is_verified THEN Fail("not_verified", u, 0)
        ELSE TokenResponse(
                 Out("ok",
                     [users EXCEPT ![u].last_login_ip = ip,
                                   ![u].last_login_device = device],
                     UpsertRefreshToken(tokens, u, create_refresh_token,
                                        get_refresh_expiry),
                     u, 0),
                 create_refresh_token, ExistingToken(tokens, u))

\* (mutation) a refresh token is spent by its use
refresh_access_token_SingleUse(refresh_token, rt) ==
    IF rt = NoRow THEN Fail("invalid_refresh_token", 0, refresh_token)
    ELSE IF rt.expires_at < now THEN Fail("expired_refresh_token", 0, refresh_token)
    ELSE IF ~IsUser(users, rt.user_id) THEN Fail("user_not_found", 0, refresh_token)
    ELSE IF ~ensure_user_active(rt.user_id)
         THEN Fail("disabled", rt.user_id, refresh_token)
    ELSE TokenResponse(Out("ok", users, tokens \ {rt}, rt.user_id, refresh_token),
                       refresh_token, 0)

\* (mutation) the expiry of the row is not looked at
refresh_access_token_NoExpiry(refresh_token, rt) ==
    IF rt = NoRow THEN Fail("invalid_refresh_token", 0, refresh_token)
    ELSE IF ~IsUser(users, rt.user_id) THEN Fail("user_not_found", 0, refresh_token)
    ELSE IF ~ensure_user_active(rt.user_id)
         THEN Fail("disabled", rt.user_id, refresh_token)
    ELSE TokenResponse(Out("ok", users, tokens, rt.user_id, refresh_token),
                       refresh_token, 0)

refresh_access_token(refresh_token, rt) ==
    IF rt = NoRow THEN Fail("invalid_refresh_token", 0, refresh_token)
    ELSE IF rt.expires_at < now THEN Fail("expired_refresh_token", 0, refresh_token)
    ELSE IF ~IsUser(users, rt.user_id) THEN Fail("user_not_found", 0, refresh_token)
    ELSE IF ~ensure_user_active(rt.user_id)
         THEN Fail("disabled", rt.user_id, refresh_token)
    ELSE TokenResponse(Out("ok", users, tokens, rt.user_id, refresh_token),
                       refresh_token, 0)

\* (mutation) a new code does not take back an earlier verification
forgot_password_KeepsVerified(rawEmail, code) ==
    LET u == get_user_by_email(EmailStr(rawEmail))
    IN  IF u = 0 THEN Fail("user_not_found", 0, 0)
        ELSE IF ~ensure_local_account(u) THEN Fail("google_account", u, 0)
        ELSE IF ~ensure_user_active(u) THEN Fail("disabled", u, 0)
        ELSE Out("ok",
                 [users EXCEPT ![u].reset_code = code,
                               ![u].reset_expires_at = now + CodeTtl],
                 tokens, u, code)

forgot_password(rawEmail, code) ==
    LET u == get_user_by_email(EmailStr(rawEmail))
    IN  IF u = 0 THEN Fail("user_not_found", 0, 0)
        ELSE IF ~ensure_local_account(u) THEN Fail("google_account", u, 0)
        ELSE IF ~ensure_user_active(u) THEN Fail("disabled", u, 0)
        ELSE Out("ok",
                 [users EXCEPT ![u].reset_code = code,
                               ![u].reset_expires_at = now + CodeTtl,
                               ![u].reset_verified = FALSE],
                 tokens, u, code)

\* auth_utils.validate_reset_code: TRUE when it does not raise
validate_reset_code(u, code) ==
    ~ \/ users[u].reset_code # code
      \/ users[u].reset_expires_at = NULL
      \/ now > users[u].reset_expires_at

\* auth_utils.validate_verification_code: TRUE when it does not raise
validate_verification_code(u, code) ==
    ~ \/ users[u].verification_code # code
      \/ users[u].verification_expires_at = NULL
      \/ now > users[u].verification_expires_at

ResetCodeMatches(code) == {i \in Live(users) : users[i].reset_code = code}

verify_forgot_password_otp(code, user) ==
    IF user = 0 THEN Fail("invalid_otp", 0, code)
    ELSE IF ~ensure_local_account(user) THEN Fail("google_account", user, code)
    ELSE IF ~ensure_user_active(user) THEN Fail("disabled", user, code)
    ELSE IF ~validate_reset_code(user, code)
         THEN Fail("invalid_reset_code", user, code)
    ELSE Out("ok", [users EXCEPT ![user].reset_verified = TRUE],
             tokens, user, code)

ResetVerifiedUsers == {i \in Live(users) : users[i].reset_verified}

\* (mutation) the refresh-token row is left in place
set_new_password_KeepsRefreshToken(password, user) ==
    IF user = 0 THEN Fail("otp_required", 0, 0)
    ELSE IF ~ensure_local_account(user) THEN Fail("google_account", user, 0)
    ELSE IF ~ensure_user_active(user) THEN Fail("disabled", user, 0)
    ELSE [Out("ok",
              [users EXCEPT ![user].hashed_password = hash_password(password),
                            ![user].reset_verified = FALSE,
                            ![user].reset_code = NULL,
                            ![user].reset_expires_at = NULL],
              tokens, user, 0)
          EXCEPT !.old = ExistingToken(tokens, user)]

set_new_password(password, user) ==
    IF user = 0 THEN Fail("otp_required", 0, 0)
    ELSE IF ~ensure_local_account(user) THEN Fail("google_account", user, 0)
    ELSE IF ~ensure_user_active(user) THEN Fail("disabled", user, 0)
    ELSE [Out("ok",
              [users EXCEPT ![user].hashed_password = hash_password(password),
                            ![user].reset_verified = FALSE,
                            ![user].reset_code = NULL,
                            ![user].reset_expires_at = NULL],
              tokens \ RowsOf(tokens, user), user, 0)
          EXCEPT !.old = ExistingToken(tokens, user)]

\* (mutation) a token that is in no row is an error
logout_user_ErrorsWhenMissing(refresh_token, rt) ==
    IF rt = NoRow THEN Fail("invalid_refresh_token", 0, refresh_token)
    ELSE Out("ok", users, tokens \ {rt}, rt.user_id, refresh_token)

\* (mutation) sign-out leaves the row in place
logout_user_KeepsRow(refresh_token, rt) ==
    IF rt = NoRow THEN Fail("ok", 0, refresh_token)
    ELSE Out("ok", users, tokens, rt.user_id, refresh_token)

logout_user(refresh_token, rt) ==
    IF rt = NoRow THEN Fail("ok", 0, refresh_token)
    ELSE Out("ok", users, tokens \ {rt}, rt.user_id, refresh_token)

\* the response of a request that is not observed
Other == [op |-> "other", res |-> "ok", uid |-> 0, arg |-> 0, tok |-> 0,
          old |-> 0]

\* ------------------------------------------------------------------------
\* Notifications
\* ------------------------------------------------------------------------
\* the retries parameter of _send_email when the caller passes none
DefaultRetries == 2

\* no _send_email call is running
NoCall == [pc |-> "idle"]

\* email_utils.send_*: the message of a task, its recipient and what it shows
Task(kind, to, arg) == [kind |-> kind, to |-> to, arg |-> arg]

\* _send_email(subject, to_email, html, retries) at the head of its loop
\* for attempt in range(1, retries + 2); outcomes are the results of the
\* send_message calls so far, sleeps counts the asyncio.sleep(1) calls
SendEmailCall(caller, msg, retries) ==
    [pc |-> IF 1 < retries + 2 THEN "attempt" ELSE "returned",
     caller |-> caller, msg |-> msg, retries |-> retries, attempt |-> 1,
     outcomes |-> <<>>, sleeps |-> 0]

\* the background_tasks.add_task calls a handler has made when it reaches
\* its end; users is the table the handler read, out.users what it writes
BackgroundTasksOf(op, out) ==
    IF out.res # "ok" THEN <<>>
    ELSE LET old == users[out.uid]
             new == out.users[out.uid]
         IN  CASE op \in {"register", "registerWrite", "resendCode"} ->
                    <<Task("verification_code", new.email, new.verification_code)>>
               [] op = "login" ->
                    <<Task("login_alert", old.email,
                           <<new.last_login_ip, new.last_login_device>>)>>
                    \o (IF \/ old.last_login_ip # new.last_login_ip
                            \/ old.last_login_device # new.last_login_device
                        THEN <<Task("new_device", old.email,
                                    <<new.last_login_device, new.last_login_ip>>)>>
                        ELSE <<>>)
               [] op = "forgotPassword" ->
                    <<Task("reset_code", new.email, new.reset_code)>>
               [] op \in {"setNewPassword", "changePassword", "updatePassword"} ->
                    <<Task("password_changed", new.email, 0)>>
               [] op = "deleteAccount" ->
                    <<Task("account_deleted", old.email, 0)>>
               [] OTHER -> <<>>

\* (mutation) a task runs where add_task is called: those of login_user and
\* delete_user_account, which call it before db.commit(), run whether or not
\* the commit goes through
Dispatched_AtAddTask(op, res, tasks) ==
    IF res = "ok" \/ op \in {"login", "loginWrite", "deleteAccount"}
    THEN tasks ELSE <<>>

\* the tasks that run for a request: FastAPI attaches the BackgroundTasks to
\* the response the handler returns; when the handler raises (an
\* HTTPException, or the IntegrityError of db.commit()) the error response
\* carries none, whenever add_task was called
Dispatched(op, res, tasks) == IF res = "ok" THEN tasks ELSE <<>>

\* ------------------------------------------------------------------------
\* Initial state: empty tables
\* ------------------------------------------------------------------------
Init ==
    /\ users = [i \in Ids |-> Unused]
    /\ tokens = {}
    /\ now = 0
    /\ ntok = 0
    /\ access = {}
    /\ last = Other
    /\ inflight = {}
    /\ outbox = <<>>
    /\ smtp = NoCall

\* What id_token.verify_oauth2_token makes of the posted id_token: it raises
\* ValueError (valid = FALSE) or returns the claims iss, email, sub, picture.
GoogleIdTokens ==
    { [jwt |-> "garbage", valid |-> FALSE, iss |-> NoStr, email |-> <<>>,
       sub |-> NoStr, picture |-> NoStr],
      [jwt |-> "other-issuer", valid |-> TRUE, iss |-> "evil.example",
       email |-> <<"b", "@", "x">>, sub |-> "s9", picture |-> NoStr],
      [jwt |-> "no-email", valid |-> TRUE, iss |-> "accounts.google.com",
       email |-> <<>>, sub |-> "s8", picture |-> NoStr],
      [jwt |-> "for-A", valid |-> TRUE, iss |-> "accounts.google.com",
       email |-> <<"A", "@", "x">>, sub |-> "s1", picture |-> "pic1"],
      [jwt |-> "for-b", valid |-> TRUE, iss |-> "https://accounts.google.com",
       email |-> <<"b", "@", "x">>, sub |-> "s2", picture |-> NoStr] }

GoogleNames == {NoStr, <<"b", "o", "b">>}

GoogleIssuers == {"accounts.google.com", "https://accounts.google.com"}

\* (mutation) the candidate that replaces a taken one is not probed itself
ProbeUsername_OneProbe(base_username, candidate, suffix) ==
    IF ByUsername(users, candidate) # {}
    THEN <<base_username, suffix>>
    ELSE candidate

\* the while loop that probes usernames: candidate, base_1, base_2, ...
RECURSIVE ProbeUsername(_, _, _)
ProbeUsername(base_username, candidate, suffix) ==
    IF ByUsername(users, candidate) # {}
    THEN ProbeUsername(base_username, <<base_username, suffix>>, suffix + 1)
    ELSE candidate

\* how often the while loop runs its query User.username == candidate, the
\* last time, which finds no row, included
RECURSIVE ProbeQueries(_, _, _)
ProbeQueries(base_username, candidate, suffix) ==
    IF ByUsername(users, candidate) # {}
    THEN 1 + ProbeQueries(base_username, <<base_username, suffix>>, suffix + 1)
    ELSE 1

\* base_username and the first candidate of google_sign_in for a new email
ProbeStart(idt, name) ==
    LET base_username == Strip(IF name # NoStr /\ name # <<>>
                               THEN name ELSE LocalPart(NormalizeEmail(idt.email)))
    IN  [base_username |-> base_username,
         candidate |-> IF base_username # <<>> THEN <<base_username, 0>>
                       ELSE <<<<"u", "s", "e", "r">>, 0>>]

\* (mutation) the provider of the account found is not looked at
google_sign_in_MergesProviders(idt, name, id) ==
    IF ~idt.valid THEN Fail("invalid_google_token", 0, 0)
    ELSE IF idt.iss \notin GoogleIssuers THEN Fail("invalid_issuer", 0, 0)
    ELSE
    LET email == NormalizeEmail(idt.email)
        found == ByEmail(users, email)
        user == IF found = {} THEN 0 ELSE CHOOSE i \in found : TRUE
    IN  IF email = <<>> THEN Fail("missing_email", 0, 0)
        ELSE IF user = 0
        THEN LET base_username == Strip(IF name # NoStr /\ name # <<>>
                                        THEN name ELSE LocalPart(email))
                 first == IF base_username # <<>> THEN <<base_username, 0>>
                          ELSE <<<<"u", "s", "e", "r">>, 0>>
                 candidate == ProbeUsername(base_username, first, 1)
                 created == [NewUser(candidate, email, NoHash, TRUE,
                                     ProviderGoogle, NULL, NULL)
                             EXCEPT !.google_sub = idt.sub,
                                    !.google_picture = idt.picture,
                                    !.last_google_id_token = idt.jwt]
             IN  TokenResponse(
                     Out("ok", [users EXCEPT ![id] = created],
                         UpsertRefreshToken(tokens, id, create_refresh_token,
                                            get_refresh_expiry),
                         id, 0),
                     create_refresh_token, ExistingToken(tokens, id))
        ELSE IF ~ensure_user_active(user) THEN Fail("disabled", user, 0)
        ELSE TokenResponse(
                 Out("ok",
                     [users EXCEPT ![user].google_sub = idt.sub,
                                   ![user].google_picture = idt.picture,
                                   ![user].last_google_id_token = idt.jwt],
                     UpsertRefreshToken(tokens, user, create_refresh_token,
                                        get_refresh_expiry),
                     user, 0),
                 create_refresh_token, ExistingToken(tokens, user))

google_sign_in(idt, name, id) ==
    IF ~idt.valid THEN Fail("invalid_google_token", 0, 0)
    ELSE IF idt.iss \notin GoogleIssuers THEN Fail("invalid_issuer", 0, 0)
    ELSE
    LET email == NormalizeEmail(idt.email)
        found == ByEmail(users, email)
        user == IF found = {} THEN 0 ELSE CHOOSE i \in found : TRUE
    IN  IF email = <<>> THEN Fail("missing_email", 0, 0)
        ELSE IF user # 0 /\ users[user].provider # ProviderGoogle
             THEN Fail("provider_conflict", user, 0)
        ELSE IF user = 0
        THEN LET base_username == Strip(IF name # NoStr /\ name # <<>>
                                        THEN name ELSE LocalPart(email))
                 first == IF base_username # <<>> THEN <<base_username, 0>>
                          ELSE <<<<"u", "s", "e", "r">>, 0>>
                 candidate == ProbeUsername(base_username, first, 1)
                 created == [NewUser(candidate, email, NoHash, TRUE,
                                     ProviderGoogle, NULL, NULL)
                             EXCEPT !.google_sub = idt.sub,
                                    !.google_picture = idt.picture,
                                    !.last_google_id_token = idt.jwt]
             IN  TokenResponse(
                     Out("ok", [users EXCEPT ![id] = created],
                         UpsertRefreshToken(tokens, id, create_refresh_token,
                                            get_refresh_expiry),
                         id, 0),
                     create_refresh_token, ExistingToken(tokens, id))
        ELSE IF ~ensure_user_active(user) THEN Fail("disabled", user, 0)
        ELSE TokenResponse(
                 Out("ok",
                     [users EXCEPT ![user].google_sub = idt.sub,
                                   ![user].google_picture = idt.picture,
                                   ![user].last_google_id_token = idt.jwt],
                     UpsertRefreshToken(tokens, user, create_refresh_token,
                                        get_refresh_expiry),
                     user, 0),
                 create_refresh_token, ExistingToken(tokens, user))

\* jwt_utils.get_current_user for an access token that names user bearer
\* (0: a token that does not decode): "ok" or the error it raises
get_current_user(bearer, expired) ==
    IF bearer \notin access THEN "invalid_token"
    ELSE IF expired THEN "token_expired"
    ELSE IF ~IsUser(users, bearer) THEN "token_user_not_found"
    ELSE IF ~users[bearer].is_active THEN "disabled"
    ELSE "ok"

\* (mutation) the path user id is not compared with the user of the token
delete_user_account_AnyUser(user_id, bearer, expired) ==
    LET auth == get_current_user(bearer, expired)
    IN  IF auth # "ok" THEN Fail(auth, 0, user_id)
        ELSE IF ~IsUser(users, user_id) THEN Fail("user_not_found", bearer, user_id)
        ELSE IF ~ensure_user_active(user_id) THEN Fail("disabled", bearer, user_id)
        ELSE Out("ok", [users EXCEPT ![user_id] = Deleted],
                 tokens \ RowsOf(tokens, user_id), user_id, user_id)

\* user_routes.delete_user_account: the row goes, and its refresh token with it
delete_user_account(user_id, bearer, expired) ==
    LET auth == get_current_user(bearer, expired)
    IN  IF auth # "ok" THEN Fail(auth, 0, user_id)
        ELSE IF bearer # user_id THEN Fail("unauthorized_access", bearer, user_id)
        ELSE IF ~IsUser(users, user_id) THEN Fail("user_not_found", bearer, user_id)
        ELSE IF ~ensure_user_active(user_id) THEN Fail("disabled", bearer, user_id)
        ELSE Out("ok", [users EXCEPT ![user_id] = Deleted],
                 tokens \ RowsOf(tokens, user_id), user_id, user_id)

\* user_routes.get_user_profile: reads the row, writes nothing
get_user_profile(user_id, bearer, expired) ==
    LET auth == get_current_user(bearer, expired)
    IN  IF auth # "ok" THEN Fail(auth, 0, user_id)
        ELSE IF bearer # user_id THEN Fail("unauthorized_access", bearer, user_id)
        ELSE IF ~IsUser(users, user_id) THEN Fail("user_not_found", bearer, user_id)
        ELSE IF ~ensure_user_active(user_id) THEN Fail("disabled", bearer, user_id)
        ELSE Out("ok", users, tokens, user_id, user_id)

\* (mutation) a password change signs the user out of every session
reset_password_RevokesSessions(old_password, password, bearer, expired) ==
    LET auth == get_current_user(bearer, expired)
    IN  IF auth # "ok" THEN Fail(auth, 0, 0)
        ELSE IF ~ensure_local_account(bearer) THEN Fail("google_account", bearer, 0)
        ELSE IF ~ensure_user_active(bearer) THEN Fail("disabled", bearer, 0)
        ELSE IF ~verify_password(old_password, users[bearer].hashed_password)
             THEN Fail("incorrect_password", bearer, 0)
        ELSE Out("ok",
                 [users EXCEPT ![bearer].hashed_password = hash_password(password)],
                 tokens \ RowsOf(tokens, bearer), bearer, 0)

\* auth_routes.reset_password: the password change of a logged-in user
reset_password(old_password, password, bearer, expired) ==
    LET auth == get_current_user(bearer, expired)
    IN  IF auth # "ok" THEN Fail(auth, 0, 0)
        ELSE IF ~ensure_local_account(bearer) THEN Fail("google_account", bearer, 0)
        ELSE IF ~ensure_user_active(bearer) THEN Fail("disabled", bearer, 0)
        ELSE IF ~verify_password(old_password, users[bearer].hashed_password)
             THEN Fail("incorrect_password", bearer, 0)
        ELSE Out("ok",
                 [users EXCEPT ![bearer].hashed_password = hash_password(password)],
                 tokens, bearer, 0)

\* user_routes.update_password: the same change under /users/{user_id}
update_password(user_id, old_password, password, bearer, expired) ==
    LET auth == get_current_user(bearer, expired)
    IN  IF auth # "ok" THEN Fail(auth, 0, 0)
        ELSE IF bearer # user_id THEN Fail("unauthorized_access", bearer, 0)
        ELSE IF ~IsUser(users, user_id) THEN Fail("user_not_found", bearer, 0)
        ELSE IF ~ensure_user_active(user_id) THEN Fail("disabled", bearer, 0)
        ELSE IF ~verify_password(old_password, users[user_id].hashed_password)
             THEN Fail("incorrect_password", user_id, 0)
        ELSE Out("ok",
                 [users EXCEPT ![user_id].hashed_password = hash_password(password)],
                 tokens, user_id, 0)

\* user_routes.update_full_profile; profile_image says whether a picture of
\* an allowed type is uploaded (profile_image_url is not part of the model)
update_full_profile(user_id, username, profile_image, bearer, expired) ==
    LET auth == get_current_user(bearer, expired)
        new_username == StripUsername(username)
    IN  IF auth # "ok" THEN Fail(auth, 0, 0)
        ELSE IF bearer # user_id THEN Fail("unauthorized_access", bearer, 0)
        ELSE IF ~IsUser(users, user_id) THEN Fail("user_not_found", bearer, 0)
        ELSE IF ~ensure_user_active(user_id) THEN Fail("disabled", bearer, 0)
        ELSE IF username = NoUsername
             THEN IF profile_image THEN Out("ok", users, tokens, user_id, 0)
                  ELSE Fail("no_changes", user_id, 0)
        ELSE IF UsernameLen(new_username) < 3
             THEN Fail("username_too_short", user_id, 0)
        ELSE IF ByUsername(users, new_username) \ {user_id} # {}
             THEN Fail("username_taken", user_id, 0)
        ELSE Out("ok", [users EXCEPT ![user_id].username = new_username],
                 tokens, user_id, 0)

\* ------------------------------------------------------------------------
\* Actions.  D is the record of the sets the requests are drawn from.
\* ------------------------------------------------------------------------
\* last is the response to the latest request when its operation is one of
\* D.observed, and Other after any other step
Observe(D, response) == IF response.op \in D.observed THEN response ELSE Other

\* db.commit(): the writes are persisted unless a constraint rejects them
\* (IntegrityError, nothing persisted); a raised HTTPException persists nothing.
\* A token response leaves an access token for out.uid with the caller.
\* added are the tasks the handler has added to its BackgroundTasks.
CommitWith(D, op, out, added) ==
    LET committed == UniqueConstraints(out.users, out.tokens)
        res == IF committed THEN out.res ELSE "integrity_error"
        issues == res = "ok" /\ op \in {"login", "google", "refresh", "loginWrite",
                                        "googleWrite"}
        tasks == IF D.mail THEN Dispatched(op, res, added) ELSE <<>>
    IN  /\ tasks # <<>> => Len(outbox) < MaxOutbox
        /\ outbox' = IF tasks # <<>> THEN Append(outbox, tasks) ELSE outbox
        /\ smtp' = smtp
        /\ users' = IF committed THEN out.users ELSE users
        /\ tokens' = IF committed THEN out.tokens ELSE tokens
        /\ ntok' = IF op \in {"login", "google"} /\ out.res = "ok"
                   THEN ntok + 1 ELSE ntok
        /\ access' = IF issues THEN access \cup {out.uid} ELSE access
        /\ last' = Observe(D, [op |-> op, res |-> res, uid |-> out.uid,
                                arg |-> out.arg,
                                tok |-> IF res = "ok" THEN out.tok ELSE 0,
                                old |-> IF res = "ok" THEN out.old ELSE 0])
        /\ now' = now

Commit(D, op, out) == CommitWith(D, op, out, BackgroundTasksOf(op, out))

\* a request served from its first read to its commit with no other request
\* in between
Respond(D, op, out) == Commit(D, op, out) /\ inflight' = inflight

Register(D) ==
    \E username \in D.usernames, rawEmail \in D.registerEmails,
       password \in D.registerPasswords, code \in D.verificationCodes :
        /\ ByEmail(users, NormalizeEmail(EmailStr(rawEmail))) = {} => FreshId # 0
        /\ Respond(D, "register",
                   register_user(username, rawEmail, password, code, FreshId))

VerifyEmail(D) ==
    \E code \in D.submittedCodes : \E user \in First(VerifyEmailMatches(code)) :
        Respond(D, "verifyEmail", verify_email(code, user))

ResendCode(D) ==
    \E rawEmail \in D.resendEmails, code \in D.verificationCodes :
        Respond(D, "resendCode", resend_verification_code(rawEmail, code))

LoginRequest(D, rawEmail, password, ip, device) ==
    /\ ntok < MaxTokens
    /\ Respond(D, "login", login_user(rawEmail, password, ip, device))

Login(D) ==
    \E rawEmail \in D.loginEmails, password \in D.loginPasswords,
       ip \in Ips, device \in Devices :
        LoginRequest(D, rawEmail, password, ip, device)

Refresh(D) ==
    \E refresh_token \in TokenValues :
      \E rt \in FirstRow(RowsWithToken(tokens, refresh_token)) :
        Respond(D, "refresh", refresh_access_token(refresh_token, rt))

ForgotPassword(D) ==
    \E rawEmail \in D.forgotEmails, code \in D.resetCodes :
        Respond(D, "forgotPassword", forgot_password(rawEmail, code))

VerifyResetCode(D) ==
    \E code \in D.submittedResetCodes : \E user \in First(ResetCodeMatches(code)) :
        Respond(D, "verifyResetCode", verify_forgot_password_otp(code, user))

SetNewPassword(D) ==
    \E password \in D.newPasswords : \E user \in First(ResetVerifiedUsers) :
        Respond(D, "setNewPassword", set_new_password(password, user))

GoogleSignIn(D) ==
    \E idt \in D.googleIdTokens, name \in D.googleNames :
        /\ ntok < MaxTokens
        /\ (idt.valid /\ ByEmail(users, NormalizeEmail(idt.email)) = {})
             => FreshId # 0
        /\ Respond(D, "google", google_sign_in(idt, name, FreshId))

SignOut(D) ==
    \E refresh_token \in TokenValues :
      \E rt \in FirstRow(RowsWithToken(tokens, refresh_token)) :
        Respond(D, "signOut", logout_user(refresh_token, rt))

\* Who calls a route that takes an access token: <<user_id, bearer, expired>>
\* is the user id in the path, the user the token names (0: a token that does
\* not decode) and whether the token has expired.  Every user with its own
\* live token, and for user 1 no token, an expired token and the token of
\* user 2.
Callers ==
    {<<u, u, FALSE>> : u \in Ids}
        \cup {<<1, 0, FALSE>>, <<1, 1, TRUE>>, <<1, 2, FALSE>>}

ChangePassword(D) ==
    \E old_password \in D.oldPasswords, password \in D.newPasswords,
       caller \in D.callers :
        Respond(D, "changePassword",
                reset_password(old_password, password, caller[2], caller[3]))

UpdatePassword(D) ==
    \E old_password \in D.oldPasswords, password \in D.newPasswords,
       caller \in D.callers :
        Respond(D, "updatePassword",
                update_password(caller[1], old_password, password,
                                caller[2], caller[3]))

UpdateProfile(D) ==
    \E username \in D.profileUsernames, profile_image \in D.profileImages,
       caller \in D.callers :
        Respond(D, "updateProfile",
                update_full_profile(caller[1], username, profile_image,
                                    caller[2], caller[3]))

GetProfile(D) ==
    \E caller \in D.callers :
        Respond(D, "getProfile",
                get_user_profile(caller[1], caller[2], caller[3]))

DeleteAccount(D) ==
    \E user_id \in Ids, bearer \in Ids \cup {0}, expired \in BOOLEAN :
        Respond(D, "deleteAccount", delete_user_account(user_id, bearer, expired))

\* is_active is flipped by an administrator directly in the users table
AdminSetActive(D) ==
    \E u \in Live(users), active \in BOOLEAN :
        /\ users[u].email \in D.adminEmails
        /\ users[u].is_active # active
        /\ users' = [users EXCEPT ![u].is_active = active]
        /\ last' = Observe(D, [Other EXCEPT !.op = "admin", !.uid = u])
        /\ UNCHANGED <<tokens, now, ntok, access, inflight, outbox, smtp>>

Tick ==
    /\ now < MaxTime
    /\ now' = now + 1
    /\ last' = Other
    /\ UNCHANGED <<users, tokens, ntok, access, inflight, outbox, smtp>>

\* ------------------------------------------------------------------------
\* Background tasks and _send_email
\* ------------------------------------------------------------------------
\* BackgroundTasks.__call__ of the oldest response: its next task calls
\* _send_email with the default retries
BackgroundTaskStart ==
    /\ smtp.pc = "idle"
    /\ outbox # <<>>
    /\ smtp' = SendEmailCall("task", Head(Head(outbox)), DefaultRetries)
    /\ UNCHANGED <<users, tokens, now, ntok, access, last, inflight, outbox>>

\* _send_email called on its own with a retries argument
SendEmailDirect(msgs) ==
    \E msg \in msgs, retries \in 0 .. MaxRetries :
        /\ smtp.pc = "idle"
        /\ outbox = <<>>
        /\ smtp' = SendEmailCall("direct", msg, retries)
        /\ UNCHANGED <<users, tokens, now, ntok, access, last, inflight, outbox>>

\* (mutation) the last attempt is compared with retries + 1
send_attempt_OneMore(call, sent) ==
    LET tried == [call EXCEPT !.outcomes = Append(@, sent)]
    IN  IF sent THEN [tried EXCEPT !.pc = "returned"]
        ELSE IF call.attempt > call.retries + 1 THEN [tried EXCEPT !.pc = "raised"]
        ELSE [tried EXCEPT !.pc = "sleep"]

\* one pass of the try block: fm.send_message returns (sent) or raises
send_attempt(call, sent) ==
    LET tried == [call EXCEPT !.outcomes = Append(@, sent)]
    IN  IF sent THEN [tried EXCEPT !.pc = "returned"]
        ELSE IF call.attempt > call.retries THEN [tried EXCEPT !.pc = "raised"]
        ELSE [tried EXCEPT !.pc = "sleep"]

SendAttempt ==
    \E sent \in BOOLEAN :
        /\ smtp.pc = "attempt"
        /\ smtp' = send_attempt(smtp, sent)
        /\ UNCHANGED <<users, tokens, now, ntok, access, last, inflight, outbox>>

\* await asyncio.sleep(1), then the next value of the range
SendSleep ==
    /\ smtp.pc = "sleep"
    /\ smtp' = [smtp EXCEPT !.sleeps = @ + 1, !.attempt = @ + 1,
                            !.pc = IF smtp.attempt + 1 < smtp.retries + 2
                                   THEN "attempt" ELSE "returned"]
    /\ UNCHANGED <<users, tokens, now, ntok, access, last, inflight, outbox>>

\* the task list of the oldest response after its first task has ended: a
\* task that returns makes way for the next one, a task that raises ends
\* the loop of BackgroundTasks.__call__ and the tasks behind it never run
AfterTask(box, pc) ==
    IF pc = "returned" /\ Len(Head(box)) > 1
    THEN <<Tail(Head(box))>> \o Tail(box)
    ELSE Tail(box)

\* (mutation) the exception of a failed task replaces the response
SendEmailEnd_Surfaces ==
    /\ smtp.pc \in {"returned", "raised"}
    /\ outbox' = IF smtp.caller = "task" THEN AfterTask(outbox, smtp.pc)
                  ELSE outbox
    /\ smtp' = NoCall
    /\ last' = IF smtp.pc = "raised" THEN [last EXCEPT !.res = "email_failed"]
               ELSE last
    /\ UNCHANGED <<users, tokens, now, ntok, access, inflight>>

\* the call ends: the exception of a failed task goes to the server log; the
\* response of the request was sent before its first task started
SendEmailEnd ==
    /\ smtp.pc \in {"returned", "raised"}
    /\ outbox' = IF smtp.caller = "task" THEN AfterTask(outbox, smtp.pc)
                  ELSE outbox
    /\ smtp' = NoCall
    /\ UNCHANGED <<users, tokens, now, ntok, access, last, inflight>>

\* ------------------------------------------------------------------------
\* Concurrent requests: the reads of a handler, then its writes and commit
\* ------------------------------------------------------------------------
\* login_user up to the query for the existing refresh-token row: every check
\* has passed, the token value is generated, the write is still to come
LoginRead(D) ==
    \E rawEmail \in D.loginEmails, password \in D.loginPasswords,
       ip \in Ips, device \in Devices :
        LET out == login_user(rawEmail, password, ip, device)
        IN  /\ out.res = "ok"
            /\ ntok < MaxTokens
            /\ Cardinality(inflight) < MaxInflight
            /\ inflight' = inflight \cup
                   {[op |-> "login", uid |-> out.uid, ip |-> ip,
                     device |-> device, existing |-> out.old,
                     tok |-> create_refresh_token, exp |-> get_refresh_expiry,
                     tasks |-> IF D.mail THEN BackgroundTasksOf("login", out)
                               ELSE <<>>]}
            /\ ntok' = ntok + 1
            /\ last' = Other
            /\ UNCHANGED <<users, tokens, now, access, outbox, smtp>>

\* the rest of login_user for the request p: existing.token = ... on the row
\* it read (an UPDATE that finds no row raises StaleDataError), db.add(...)
\* if it read none, and the login columns of the user
login_write(p) ==
    IF ~IsUser(users, p.uid) \/ (p.existing # 0 /\ RowsOf(tokens, p.uid) = {})
    THEN Fail("stale_data", p.uid, 0)
    ELSE TokenResponse(
             Out("ok",
                 [users EXCEPT ![p.uid].last_login_ip = p.ip,
                               ![p.uid].last_login_device = p.device],
                 IF p.existing # 0
                 THEN {IF r.user_id = p.uid
                       THEN [r EXCEPT !.token = p.tok, !.expires_at = p.exp]
                       ELSE r : r \in tokens}
                 ELSE tokens \cup {[user_id |-> p.uid, token |-> p.tok,
                                    expires_at |-> p.exp]},
                 p.uid, 0),
             p.tok, p.existing)

LoginWrite(D) ==
    \E p \in inflight :
        /\ p.op = "login"
        /\ CommitWith(D, "loginWrite", login_write(p), p.tasks)
        /\ inflight' = inflight \ {p}

\* register_user up to its existence check, which found no user with the
\* email: the row is built, db.add and db.commit are still to come
RegisterRead(D) ==
    \E username \in D.usernames, rawEmail \in D.registerEmails,
       password \in D.registerPasswords, code \in D.verificationCodes :
        /\ ByEmail(users, NormalizeEmail(EmailStr(rawEmail))) = {}
        /\ Cardinality(inflight) < MaxInflight
        /\ inflight' = inflight \cup
               {[op |-> "register",
                 row |-> NewUser(StripUsername(username),
                                 NormalizeEmail(EmailStr(rawEmail)),
                                 hash_password(password), FALSE, ProviderLocal,
                                 code, now + CodeTtl)]}
        /\ last' = Other
        /\ UNCHANGED <<users, tokens, now, ntok, access, outbox, smtp>>

\* db.add(new_user); db.commit() of the request p
register_write(p, id) ==
    Out("ok", [users EXCEPT ![id] = p.row], tokens, id, p.row.verification_code)

RegisterWriteOf(D, p) ==
    /\ p.op = "register"
    /\ FreshId # 0
    /\ Commit(D, "registerWrite", register_write(p, FreshId))
    /\ inflight' = inflight \ {p}

RegisterWrite(D) == \E p \in inflight : RegisterWriteOf(D, p)

\* google_sign_in up to the query for the existing refresh-token row: the
\* user is created or its Google fields are updated and that is committed
\* (db.commit() at line 455 or 463), the token value is generated and the
\* row of the user is looked up; the upsert and the second db.commit() are
\* still to come.  created says whether this request inserted the user.
GoogleUserCommit(D) ==
    \E idt \in D.googleIdTokens, name \in D.googleNames :
        LET out == google_sign_in(idt, name, FreshId)
        IN  /\ (idt.valid /\ ByEmail(users, NormalizeEmail(idt.email)) = {})
                 => FreshId # 0
            /\ out.res = "ok"
            /\ ntok < MaxTokens
            /\ Cardinality(inflight) < MaxInflight
            /\ UniqueConstraints(out.users, tokens)
            /\ users' = out.users
            /\ inflight' = inflight \cup
                   {[op |-> "google", uid |-> out.uid,
                     created |-> ~IsUser(users, out.uid),
                     existing |-> out.old,
                     tok |-> create_refresh_token, exp |-> get_refresh_expiry]}
            /\ ntok' = ntok + 1
            /\ last' = Other
            /\ UNCHANGED <<tokens, now, access, outbox, smtp>>

\* the rest of google_sign_in for the request p: existing.token = ... on the
\* row it read, db.add(RefreshToken(...)) if it read none
google_write(p) ==
    IF ~IsUser(users, p.uid) \/ (p.existing # 0 /\ RowsOf(tokens, p.uid) = {})
    THEN Fail("stale_data", p.uid, 0)
    ELSE TokenResponse(
             Out("ok", users,
                 IF p.existing # 0
                 THEN {IF r.user_id = p.uid
                       THEN [r EXCEPT !.token = p.tok, !.expires_at = p.exp]
                       ELSE r : r \in tokens}
                 ELSE tokens \cup {[user_id |-> p.uid, token |-> p.tok,
                                    expires_at |-> p.exp]},
                 p.uid, 0),
             p.tok, p.existing)

GoogleTokenWriteOf(D, p) ==
    /\ p.op = "google"
    /\ Commit(D, "googleWrite", google_write(p))
    /\ inflight' = inflight \ {p}

GoogleTokenWrite(D) == \E p \in inflight : GoogleTokenWriteOf(D, p)

\* verify_forgot_password_otp up to validate_reset_code: the row is loaded,
\* every check has passed, user.reset_verified = True and db.commit() are
\* still to come
VerifyResetRead(D) ==
    \E code \in D.submittedResetCodes : \E user \in First(ResetCodeMatches(code)) :
        /\ verify_forgot_password_otp(code, user).res = "ok"
        /\ Cardinality(inflight) < MaxInflight
        /\ inflight' = inflight \cup
               {[op |-> "verifyReset", uid |-> user, code |-> code,
                 loaded |-> users[user].reset_verified]}
        /\ last' = Other
        /\ UNCHANGED <<users, tokens, now, ntok, access, outbox, smtp>>

\* the flush of the request p: the unit of work writes the attributes that
\* differ from what it loaded, here UPDATE users SET reset_verified = true
\* WHERE id = ..., whatever the other columns of the row hold by now; an
\* UPDATE that matches no row raises StaleDataError
verify_reset_write(p) ==
    IF p.loaded THEN Out("ok", users, tokens, p.uid, p.code)
    ELSE IF ~IsUser(users, p.uid) THEN Fail("stale_data", p.uid, p.code)
    ELSE Out("ok", [users EXCEPT ![p.uid].reset_verified = TRUE],
             tokens, p.uid, p.code)

VerifyResetWrite(D) ==
    \E p \in inflight :
        /\ p.op = "verifyReset"
        /\ Commit(D, "verifyResetWrite", verify_reset_write(p))
        /\ inflight' = inflight \ {p}

\* resend_verification_code up to its checks: the row is loaded and is not
\* verified, the new code and db.commit() are still to come
ResendRead(D) ==
    \E rawEmail \in D.resendEmails, code \in D.verificationCodes :
        LET out == resend_verification_code(rawEmail, code)
        IN  /\ out.res = "ok"
            /\ Cardinality(inflight) < MaxInflight
            /\ inflight' = inflight \cup
                   {[op |-> "code", uid |-> out.uid,
                     code |-> code, exp |-> now + CodeTtl,
                     loaded |-> users[out.uid]]}
            /\ last' = Other
            /\ UNCHANGED <<users, tokens, now, ntok, access, outbox, smtp>>

\* register_user up to its check of the user it found with the email: the
\* row is loaded and is not verified, the new code and db.commit() are still
\* to come
ReRegisterRead(D) ==
    \E username \in D.usernames, rawEmail \in D.registerEmails,
       password \in D.registerPasswords, code \in D.verificationCodes :
        LET existing == ByEmail(users, NormalizeEmail(EmailStr(rawEmail)))
        IN  /\ existing # {}
            /\ LET out == register_user(username, rawEmail, password, code, 0)
               IN  /\ out.res = "ok"
                   /\ Cardinality(inflight) < MaxInflight
                   /\ inflight' = inflight \cup
                          {[op |-> "code", uid |-> out.uid,
                            code |-> code, exp |-> now + CodeTtl,
                            loaded |-> users[out.uid]]}
            /\ last' = Other
            /\ UNCHANGED <<users, tokens, now, ntok, access, outbox, smtp>>

\* the flush of the request p: UPDATE users SET verification_code = ...,
\* verification_expires_at = ... WHERE id = ..., with the columns whose new
\* value differs from the one loaded and no others
verification_code_write(p) ==
    IF ~IsUser(users, p.uid) THEN Fail("stale_data", p.uid, p.code)
    ELSE Out("ok",
             [users EXCEPT
                ![p.uid].verification_code =
                    IF p.code # p.loaded.verification_code THEN p.code ELSE @,
                ![p.uid].verification_expires_at =
                    IF p.exp # p.loaded.verification_expires_at THEN p.exp ELSE @],
             tokens, p.uid, p.code)

VerificationCodeWrite(D) ==
    \E p \in inflight :
        /\ p.op = "code"
        /\ Commit(D, "codeWrite", verification_code_write(p))
        /\ inflight' = inflight \ {p}

\* ------------------------------------------------------------------------
\* Specifications: the requests over different request sets
\* ------------------------------------------------------------------------
EmailA == <<"a", "@", "x">>
EmailUpperA == <<"A", "@", "x">>
EmailB == <<"b", "@", "x">>
Code1 == CodeMin
IdTokenGarbage == CHOOSE t \in GoogleIdTokens : t.jwt = "garbage"
IdTokenForA == CHOOSE t \in GoogleIdTokens : t.jwt = "for-A"
IdTokenForB == CHOOSE t \in GoogleIdTokens : t.jwt = "for-b"

\* Sessions: a password account a@x and a Google account b@x, one code value
SessionRequests ==
    [ usernames |-> {<<<<"a">>, 0>>},
      registerEmails |-> {EmailA},
      registerPasswords |-> {"Passw0rd1"},
      verificationCodes |-> {Code1},
      submittedCodes |-> {Code1},
      resendEmails |-> {EmailUpperA},
      loginEmails |-> {EmailUpperA, EmailB},
      loginPasswords |-> Passwords,
      forgotEmails |-> {EmailA},
      resetCodes |-> {Code1},
      submittedResetCodes |-> {Code1},
      newPasswords |-> {"Passw0rd2"},
      oldPasswords |-> {"Passw0rd1"},
      profileUsernames |-> {NoUsername},
      profileImages |-> {FALSE},
      callers |-> Callers,
      googleIdTokens |-> {IdTokenGarbage, IdTokenForA, IdTokenForB},
      googleNames |-> {NoStr},
      adminEmails |-> {EmailA},
      observed |-> {"login", "google"},
      mail |-> FALSE ]

\* Every request that touches refresh tokens, and what it takes to get an
\* account that can log in or reset its password.  The clock stands still:
\* it decides only the expiry written into a row, which SpecRefresh covers.
Next ==
    \/ Register(SessionRequests)
    \/ VerifyEmail(SessionRequests)
    \/ Login(SessionRequests)
    \/ Refresh(SessionRequests)
    \/ ForgotPassword(SessionRequests)
    \/ VerifyResetCode(SessionRequests)
    \/ SetNewPassword(SessionRequests)
    \/ GoogleSignIn(SessionRequests)
    \/ SignOut(SessionRequests)
    \/ DeleteAccount(SessionRequests)
    \/ AdminSetActive(SessionRequests)

Spec == Init /\ [][Next]_vars

\* Refresh: the same accounts with the clock running; refresh is observed
RefreshRequests ==
    [SessionRequests EXCEPT !.observed = {"refresh", "login", "google"},
                            !.loginPasswords = {"Passw0rd1"},
                            !.googleIdTokens = {IdTokenForB}]

NextRefresh ==
    \/ Register(RefreshRequests)
    \/ VerifyEmail(RefreshRequests)
    \/ Login(RefreshRequests)
    \/ Refresh(RefreshRequests)
    \/ GoogleSignIn(RefreshRequests)
    \/ SignOut(RefreshRequests)
    \/ DeleteAccount(RefreshRequests)
    \/ AdminSetActive(RefreshRequests)
    \/ Tick

SpecRefresh == Init /\ [][NextRefresh]_vars

\* Verification: two password accounts that can be issued the same or
\* different codes, with the clock running; verifyEmail is observed
VerifyRequests ==
    [SessionRequests EXCEPT !.usernames = Usernames,
                            !.registerEmails = {EmailA, EmailB},
                            !.verificationCodes = Codes,
                            !.submittedCodes = Codes,
                            !.resendEmails = {EmailA, EmailB},
                            !.observed = {"verifyEmail"}]

NextVerify ==
    \/ Register(VerifyRequests)
    \/ ResendCode(VerifyRequests)
    \/ VerifyEmail(VerifyRequests)
    \/ Tick

SpecVerify == Init /\ [][NextVerify]_vars

\* Password reset: two password accounts that can be issued the same or
\* different reset codes, a@x can log in and be disabled; the three requests
\* of the reset path are observed.  The clock stands still.
ResetRequests ==
    [SessionRequests EXCEPT !.usernames = Usernames,
                            !.registerEmails = {EmailA, EmailB},
                            !.loginEmails = {EmailA},
                            !.loginPasswords = {"Passw0rd1"},
                            !.forgotEmails = {EmailUpperA, EmailB},
                            !.resetCodes = Codes,
                            !.submittedResetCodes = Codes,
                            !.observed = {"forgotPassword", "verifyResetCode",
                                          "setNewPassword"}]

NextReset ==
    \/ Register(ResetRequests)
    \/ VerifyEmail(ResetRequests)
    \/ Login(ResetRequests)
    \/ ForgotPassword(ResetRequests)
    \/ VerifyResetCode(ResetRequests)
    \/ SetNewPassword(ResetRequests)
    \/ AdminSetActive(ResetRequests)

SpecReset == Init /\ [][NextReset]_vars

\* Concurrency: two password accounts; logins of a@x and registrations that
\* have read stay in flight while other requests are served.  Every account
\* is created by a registration that found its email free when it read.
ConcurrentRequests ==
    [SessionRequests EXCEPT !.usernames = Usernames,
                            !.registerEmails = {EmailA, EmailB},
                            !.loginEmails = {EmailA},
                            !.loginPasswords = {"Passw0rd1"},
                            !.observed = {"loginWrite", "registerWrite"}]

NextConcurrent ==
    \/ RegisterRead(ConcurrentRequests)
    \/ RegisterWrite(ConcurrentRequests)
    \/ VerifyEmail(ConcurrentRequests)
    \/ Login(ConcurrentRequests)
    \/ LoginRead(ConcurrentRequests)
    \/ LoginWrite(ConcurrentRequests)

SpecConcurrent == Init /\ [][NextConcurrent]_vars

\* Accounts: the password account a@x (registered as bob) and the Google
\* accounts b@x and, if a@x is not registered, A@x; every request that writes
\* a users row.  The clock stands still.
UsernameBob == <<<<"b", "o", "b">>, 0>>
UsernameAnn == <<<<"a", "n", "n">>, 0>>
UsernameBobBlank == <<<<"b", "o", "b", " ">>, 0>>
UsernameShort == <<<<"a">>, 0>>

AccountRequests ==
    [SessionRequests EXCEPT !.usernames = {UsernameBob},
                            !.resendEmails = {EmailA, EmailUpperA},
                            !.loginPasswords = {"Passw0rd1"},
                            !.googleIdTokens = {IdTokenForA, IdTokenForB},
                            !.googleNames = GoogleNames,
                            !.profileUsernames = {NoUsername, UsernameShort,
                                                  UsernameAnn, UsernameBobBlank},
                            !.observed = {"verifyEmail", "google"}]

NextAccounts ==
    \/ Register(AccountRequests)
    \/ ResendCode(AccountRequests)
    \/ VerifyEmail(AccountRequests)
    \/ Login(AccountRequests)
    \/ ForgotPassword(AccountRequests)
    \/ VerifyResetCode(AccountRequests)
    \/ SetNewPassword(AccountRequests)
    \/ ChangePassword(AccountRequests)
    \/ UpdatePassword(AccountRequests)
    \/ UpdateProfile(AccountRequests)
    \/ GoogleSignIn(AccountRequests)
    \/ DeleteAccount(AccountRequests)

SpecAccounts == Init /\ [][NextAccounts]_vars

\* Commit points: Google sign-ins for b@x and A@x that are served to the end
\* or stay in flight between their two commits, next to the requests of the
\* password account a@x; every response is observed.
CommitRequests ==
    [SessionRequests EXCEPT !.loginPasswords = {"Passw0rd1"},
                            !.googleIdTokens = {IdTokenGarbage, IdTokenForA,
                                                IdTokenForB},
                            !.observed = {"register", "verifyEmail", "login",
                                          "google", "googleWrite", "signOut"}]

NextCommit ==
    \/ Register(CommitRequests)
    \/ VerifyEmail(CommitRequests)
    \/ Login(CommitRequests)
    \/ GoogleSignIn(CommitRequests)
    \/ GoogleUserCommit(CommitRequests)
    \/ GoogleTokenWrite(CommitRequests)
    \/ SignOut(CommitRequests)

SpecCommit == Init /\ [][NextCommit]_vars

\* Google sign-in: a password account registered as bob, and sign-ins with
\* every id token of the model (two that verify, for A@x and b@x, and three
\* that do not) that assert no name, the name bob or a name that is blank
NameBlank == <<" ">>

GoogleRequests ==
    [SessionRequests EXCEPT !.usernames = {UsernameBob},
                            !.loginPasswords = {"Passw0rd1"},
                            !.googleIdTokens = GoogleIdTokens,
                            !.googleNames = {NoStr, <<"b", "o", "b">>,
                                              NameBlank},
                            !.observed = {"google"}]

NextGoogle ==
    \/ Register(GoogleRequests)
    \/ VerifyEmail(GoogleRequests)
    \/ Login(GoogleRequests)
    \/ GoogleSignIn(GoogleRequests)
    \/ SignOut(GoogleRequests)
    \/ DeleteAccount(GoogleRequests)

SpecGoogle == Init /\ [][NextGoogle]_vars

\* User-scoped routes: the password account a@x and the Google account b@x,
\* each calling /users/{user_id} with its own token or the other's, with a
\* token that has expired or none, before and after its account is deleted
\* or (a@x) disabled
ScopedRequests ==
    [SessionRequests EXCEPT !.usernames = {UsernameBob},
                            !.loginEmails = {EmailA},
                            !.loginPasswords = {"Passw0rd1"},
                            !.googleIdTokens = {IdTokenForB},
                            !.profileUsernames = {NoUsername, UsernameAnn},
                            !.callers = Callers \cup {<<2, 1, FALSE>>},
                            !.observed = {"getProfile"}]

NextScoped ==
    \/ Register(ScopedRequests)
    \/ VerifyEmail(ScopedRequests)
    \/ Login(ScopedRequests)
    \/ GoogleSignIn(ScopedRequests)
    \/ GetProfile(ScopedRequests)
    \/ UpdateProfile(ScopedRequests)
    \/ UpdatePassword(ScopedRequests)
    \/ DeleteAccount(ScopedRequests)
    \/ AdminSetActive(ScopedRequests)

SpecScoped == Init /\ [][NextScoped]_vars

\* Providers: the emails a@x and b@x, each taken by whichever of register and
\* Google sign-in comes first, then registered again and logged in with a
\* right or a wrong password; an account can be deleted and its email reused
ProviderRequests ==
    [SessionRequests EXCEPT !.usernames = {UsernameBob},
                            !.registerEmails = {EmailUpperA, EmailB},
                            !.loginEmails = {EmailA, EmailB},
                            !.googleIdTokens = {IdTokenForA, IdTokenForB},
                            !.observed = {"register", "login"}]

NextProvider ==
    \/ Register(ProviderRequests)
    \/ VerifyEmail(ProviderRequests)
    \/ Login(ProviderRequests)
    \/ GoogleSignIn(ProviderRequests)
    \/ DeleteAccount(ProviderRequests)

SpecProvider == Init /\ [][NextProvider]_vars

\* Notifications: the password account a@x registers, logs in and resets
\* its password while the background tasks of the responses are worked off;
\* the responses of login and setNewPassword are observed.
MailRequests ==
    [SessionRequests EXCEPT !.loginEmails = {EmailA},
                            !.loginPasswords = {"Passw0rd1"},
                            !.observed = {"login", "setNewPassword"},
                            !.mail = TRUE]

NextMail ==
    \/ Register(MailRequests)
    \/ VerifyEmail(MailRequests)
    \/ Login(MailRequests)
    \/ ForgotPassword(MailRequests)
    \/ VerifyResetCode(MailRequests)
    \/ SetNewPassword(MailRequests)
    \/ BackgroundTaskStart
    \/ SendAttempt
    \/ SendSleep
    \/ SendEmailEnd

SpecMail == Init /\ [][NextMail]_vars

\* Dispatch: the account a@x registers, logs in, served at once or split at
\* its commit so that the commit of a login can fail, and deletes itself,
\* while the background tasks are worked off; the responses of the
\* operations that notify are observed.
DispatchRequests ==
    [SessionRequests EXCEPT !.loginEmails = {EmailA},
                            !.loginPasswords = {"Passw0rd1"},
                            !.observed = {"register", "login", "loginWrite",
                                          "deleteAccount"},
                            !.mail = TRUE]

NextDispatch ==
    \/ Register(DispatchRequests)
    \/ VerifyEmail(DispatchRequests)
    \/ Login(DispatchRequests)
    \/ LoginRead(DispatchRequests)
    \/ LoginWrite(DispatchRequests)
    \/ DeleteAccount(DispatchRequests)
    \/ BackgroundTaskStart
    \/ SendAttempt
    \/ SendSleep
    \/ SendEmailEnd

SpecDispatch == Init /\ [][NextDispatch]_vars

\* _send_email on its own: every kind of message to a@x or b@x, called with
\* retries from 0 to MaxRetries, each attempt failing or not
Messages ==
    {Task(kind, to, 0) :
        kind \in {"verification_code", "reset_code", "login_alert", "new_device",
                  "password_changed", "account_deleted"},
        to \in {EmailA, EmailB}}

NextSendEmail ==
    \/ SendEmailDirect(Messages)
    \/ SendAttempt
    \/ SendSleep
    \/ SendEmailEnd

SpecSendEmail == Init /\ [][NextSendEmail]_vars

\* the event loop runs the coroutine on: send_message returns or raises
\* within its timeout, and asyncio.sleep(1) ends
SpecSendEmailFair ==
    /\ Init /\ [][NextSendEmail]_vars
    /\ WF_vars(SendAttempt)
    /\ WF_vars(SendSleep)

\* Races: the account a@x is issued either code, for its email or for a
\* password reset, while a request that has read its row is still to write.
RaceRequests ==
    [SessionRequests EXCEPT !.verificationCodes = Codes,
                            !.submittedCodes = Codes,
                            !.resendEmails = {EmailA},
                            !.resetCodes = Codes,
                            !.submittedResetCodes = Codes,
                            !.observed = {"verifyEmail", "verifyResetCode",
                                          "verifyResetWrite"}]

\* Reset race: a@x asks for reset codes while a verifyResetCode that has read
\* its row is still to write; the responses of verifyResetCode are observed
NextResetRace ==
    \/ Register(RaceRequests)
    \/ ForgotPassword(RaceRequests)
    \/ VerifyResetCode(RaceRequests)
    \/ VerifyResetRead(RaceRequests)
    \/ VerifyResetWrite(RaceRequests)
    \/ SetNewPassword(RaceRequests)

SpecResetRace == Init /\ [][NextResetRace]_vars

\* Verification race: a@x is registered and verified while resendCode and
\* re-registration requests that have read its row are still to write
NextVerifyRace ==
    \/ Register(RaceRequests)
    \/ ResendCode(RaceRequests)
    \/ VerifyEmail(RaceRequests)
    \/ ResendRead(RaceRequests)
    \/ ReRegisterRead(RaceRequests)
    \/ VerificationCodeWrite(RaceRequests)

SpecVerifyRace == Init /\ [][NextVerifyRace]_vars

\* Two password accounts: a@x and b@x are registered, again and again with
\* either username, password and code, verified, logged in with either
\* password and, where the specification has the routes, change their
\* passwords to and from either password.
TwoAccountRequests ==
    [SessionRequests EXCEPT !.usernames = Usernames,
                            !.registerEmails = {EmailUpperA, EmailB},
                            !.registerPasswords = Passwords,
                            !.verificationCodes = Codes,
                            !.submittedCodes = Codes,
                            !.loginEmails = {EmailA, EmailB},
                            !.oldPasswords = Passwords,
                            !.newPasswords = Passwords,
                            !.observed = {"register", "login", "changePassword",
                                          "updatePassword"}]

\* Re-registration: registrations, verifications and logins of the two
\* accounts
NextReRegister ==
    \/ Register(TwoAccountRequests)
    \/ VerifyEmail(TwoAccountRequests)
    \/ Login(TwoAccountRequests)

SpecReRegister == Init /\ [][NextReRegister]_vars

\* Disabled accounts: the password account a@x and the Google account b@x,
\* either of which the administrator can disable and enable again at any
\* point of its login, refresh and password-reset history; the clock runs, so
\* that a refresh-token row can be past its expiry.
DisabledRequests ==
    [SessionRequests EXCEPT !.loginEmails = {EmailA},
                            !.loginPasswords = {"Passw0rd1"},
                            !.googleIdTokens = {IdTokenForB},
                            !.adminEmails = {EmailA, EmailB},
                            !.callers = {<<1, 1, FALSE>>, <<2, 2, FALSE>>},
                            !.observed = {}]

NextDisabled ==
    \/ Register(DisabledRequests)
    \/ VerifyEmail(DisabledRequests)
    \/ Login(DisabledRequests)
    \/ Refresh(DisabledRequests)
    \/ ForgotPassword(DisabledRequests)
    \/ VerifyResetCode(DisabledRequests)
    \/ SetNewPassword(DisabledRequests)
    \/ ChangePassword(DisabledRequests)
    \/ GoogleSignIn(DisabledRequests)
    \/ AdminSetActive(DisabledRequests)
    \/ Tick

SpecDisabled == Init /\ [][NextDisabled]_vars

\* Password changes: the two accounts register, verify, log in, refresh, go
\* through the first two steps of a password reset and change their
\* passwords through either route.  The clock stands still: neither route
\* reads it, and the expiry of a refresh-token row is compared with the same
\* clock before and after.
NextPassword ==
    \/ Register(TwoAccountRequests)
    \/ VerifyEmail(TwoAccountRequests)
    \/ Login(TwoAccountRequests)
    \/ Refresh(TwoAccountRequests)
    \/ ForgotPassword(TwoAccountRequests)
    \/ VerifyResetCode(TwoAccountRequests)
    \/ ChangePassword(TwoAccountRequests)
    \/ UpdatePassword(TwoAccountRequests)

SpecPassword == Init /\ [][NextPassword]_vars

\* ------------------------------------------------------------------------
\* Claims
\* ------------------------------------------------------------------------

\* C1: in every reachable state each user owns at most one refresh-token row
\* and no two rows hold the same token value; a login never runs into the
\* uniqueness constraints (it overwrites the row it finds), and right after a
\* successful login the user owns exactly one row, holding the value returned.
C1_OneRefreshTokenPerUser ==
    /\ \A r, s \in tokens :
         r # s => r.user_id # s.user_id /\ r.token # s.token
    /\ last.op = "login" =>
         /\ last.res # "integrity_error"
         /\ last.res = "ok" =>
              /\ Cardinality(RowsOf(tokens, last.uid)) = 1
              /\ \A r \in RowsOf(tokens, last.uid) : r.token = last.tok

\* C1 witness: a login has just overwritten the row of a user who had logged
\* in before, while another user owns a row too
C1_Witness ==
    /\ last.op = "login" /\ last.res = "ok"
    /\ last.tok = 3 /\ last.old # 0
    /\ Cardinality(tokens) = 2

\* the account a login request is about, and what the claim requires of it
LoginAccount(rawEmail) ==
    {u \in Live(users) : users[u].email = NormalizeEmail(rawEmail)}

LoginAllowed(rawEmail, password) ==
    \E u \in LoginAccount(rawEmail) :
        /\ users[u].provider = ProviderLocal
        /\ users[u].is_active
        /\ users[u].is_verified
        /\ users[u].hashed_password = hash_password(password)

\* C2: a login request gets tokens only if the account with the normalized
\* email is LOCAL, active, verified and the password is the stored one;
\* otherwise the response is an error and users and refresh tokens are unchanged.
C2_LoginPreconditions ==
    [][\A rawEmail \in SessionRequests.loginEmails, password \in Passwords,
          ip \in Ips, device \in Devices :
         LoginRequest(SessionRequests, rawEmail, password, ip, device) =>
           /\ last'.res = "ok" => LoginAllowed(rawEmail, password)
           /\ ~LoginAllowed(rawEmail, password) =>
                /\ last'.res # "ok"
                /\ users' = users
                /\ tokens' = tokens
                /\ access' = access]_vars

\* C2 witness: a login with the right password was refused because the account
\* is disabled, while that account owns a refresh-token row
C2_Witness ==
    /\ last.op = "login" /\ last.res = "disabled"
    /\ RowsOf(tokens, last.uid) # {}

\* the responses a refresh request presenting the value v can get in this state
RefreshResults(v) ==
    {refresh_access_token(v, rt).res : rt \in FirstRow(RowsWithToken(tokens, v))}

\* C8: right after a successful login or Google sign-in the value of the row
\* it replaced is refused as an invalid refresh token, the value it returned is
\* accepted, and no other value is accepted for that user; and a value that
\* has been issued and is in no row is never in a row again, so it stays
\* refused in every later state.
C8_PreviousTokenInvalid ==
    /\ [](last.op \in {"login", "google"} /\ last.res = "ok" =>
            /\ last.old # 0 => RefreshResults(last.old) = {"invalid_refresh_token"}
            /\ RefreshResults(last.tok) = {"ok"}
            /\ \A v \in TokenValues : \A r \in RowsWithToken(tokens, v) :
                 "ok" \in RefreshResults(v) /\ r.user_id = last.uid => v = last.tok)
    /\ [][\A v \in 1..ntok :
            RowsWithToken(tokens, v) = {} => RowsWithToken(tokens', v) = {}]_vars

\* C8 witness: a login has just replaced the row of a user whose previous
\* value is now refused, while the clock has moved on since the first issue
C8_Witness ==
    /\ last.op = "login" /\ last.res = "ok" /\ last.old # 0
    /\ RefreshResults(last.old) = {"invalid_refresh_token"}
    /\ now > 0

\* the row a refresh request presenting v is answered from is usable: it
\* exists, the clock has not passed its expiry, its owner exists and is active
RefreshUsable(v) ==
    \E r \in tokens :
        /\ r.token = v
        /\ ~(now > r.expires_at)
        /\ IsUser(users, r.user_id)
        /\ users[r.user_id].is_active

\* C9: a refresh request succeeds exactly when a row holds the presented
\* value, the clock has not passed the row's expiry and the row's owner is an
\* existing active user; without a row it fails as invalid, past the expiry
\* as expired; on success the access token is issued for the row's owner.
C9_RefreshPreconditions ==
    [][last'.op = "refresh" =>
         LET v == last'.arg IN
           /\ last'.res = "ok" <=> RefreshUsable(v)
           /\ RowsWithToken(tokens, v) = {} => last'.res = "invalid_refresh_token"
           /\ (\E r \in RowsWithToken(tokens, v) : now > r.expires_at)
                => last'.res = "expired_refresh_token"
           /\ last'.res = "ok" =>
                /\ \A r \in RowsWithToken(tokens, v) : last'.uid = r.user_id
                /\ access' = access \cup {last'.uid}]_vars

\* C9 witness: a refresh request has just been refused because its row expired
C9_Witness ==
    /\ last.op = "refresh" /\ last.res = "expired_refresh_token"
    /\ \E r \in RowsWithToken(tokens, last.arg) : now > r.expires_at

\* C10: a refresh request writes nothing: users and refresh-token rows are the
\* same before and after it, and a successful response hands back the value
\* that was presented.
C10_RefreshChangesNothing ==
    [][last'.op = "refresh" =>
         /\ users' = users /\ tokens' = tokens
         /\ last'.res = "ok" => last'.tok = last'.arg]_vars

\* C10 witness: a refresh request has just succeeded on a row that is still
\* there with the value presented
C10_Witness ==
    /\ last.op = "refresh" /\ last.res = "ok" /\ last.tok = last.arg
    /\ RowsWithToken(tokens, last.arg) # {}

\* C3: right after a successful verifyEmail the user it verified has
\* is_verified true and an empty verification slot, and a further verifyEmail
\* with the same code, no code having been issued in between, is refused as
\* invalid or expired.
C3_VerifyEmailOnce ==
    last.op = "verifyEmail" /\ last.res = "ok" =>
        /\ users[last.uid].is_verified
        /\ users[last.uid].verification_code = NULL
        /\ users[last.uid].verification_expires_at = NULL
        /\ \A user \in First(VerifyEmailMatches(last.arg)) :
             verify_email(last.arg, user).res = "invalid_verification_code"

\* C4: right after verifyResetCode has accepted a code, the reset code and its
\* expiry of the user it accepted are empty, and a further verifyResetCode
\* with the same code is refused as invalid.
C4_ResetCodeSingleUse ==
    last.op = "verifyResetCode" /\ last.res = "ok" =>
        /\ users[last.uid].reset_code = NULL
        /\ users[last.uid].reset_expires_at = NULL
        /\ \A user \in First(ResetCodeMatches(last.arg)) :
             verify_forgot_password_otp(last.arg, user).res
                 \in {"invalid_otp", "invalid_reset_code"}

\* users whose verification slot holds code and has not run past its expiry
VerificationHeld(code) ==
    {u \in Live(users) : /\ users[u].verification_code = code
                         /\ users[u].verification_expires_at # NULL
                         /\ ~(now > users[u].verification_expires_at)}

\* users whose reset slot holds code and has not run past its expiry
ResetHeld(code) ==
    {u \in Live(users) : /\ users[u].reset_code = code
                         /\ users[u].reset_expires_at # NULL
                         /\ ~(now > users[u].reset_expires_at)}

\* C5: verifyEmail and verifyResetCode refuse a submitted code as invalid
\* exactly when no slot holds that code with the clock at or before its
\* expiry (so a correct code is accepted at the instant of its expiry), and a
\* refused submission changes no user.
C5_CodeRejection ==
    [][/\ last'.op = "verifyEmail" =>
            /\ last'.res = "invalid_verification_code"
                  <=> VerificationHeld(last'.arg) = {}
            /\ last'.res = "invalid_verification_code" => users' = users
       /\ last'.op = "verifyResetCode" =>
            /\ last'.res \in {"invalid_otp", "invalid_reset_code"}
                  <=> ResetHeld(last'.arg) = {}
            /\ last'.res \in {"invalid_otp", "invalid_reset_code"}
                  => users' = users]_vars

\* C6: a setNewPassword request that finds no user with reset_verified fails
\* and writes nothing; one that succeeds acts on a user whose reset_verified
\* was true, stores the hash of the new password, empties reset_code and
\* reset_expires_at, sets reset_verified false and deletes that user's
\* refresh-token row, touching no other user and no other row; a refused one
\* writes nothing; and no step changes a password hash of a user whose
\* reset_verified was false.
C6_SetNewPassword ==
    [][/\ last'.op = "setNewPassword" =>
            /\ ResetVerifiedUsers = {} =>
                 last'.res = "otp_required" /\ users' = users /\ tokens' = tokens
            /\ last'.res # "ok" => users' = users /\ tokens' = tokens
            /\ last'.res = "ok" =>
                 LET u == last'.uid IN
                   /\ users[u].reset_verified
                   /\ \E password \in ResetRequests.newPasswords :
                        users' = [users EXCEPT
                                    ![u].hashed_password = hash_password(password),
                                    ![u].reset_code = NULL,
                                    ![u].reset_expires_at = NULL,
                                    ![u].reset_verified = FALSE]
                   /\ tokens' = tokens \ RowsOf(tokens, u)
                   /\ RowsOf(tokens', u) = {}
       /\ \A u \in Ids :
            /\ IsUser(users, u) /\ IsUser(users', u)
            /\ users'[u].hashed_password # users[u].hashed_password
            => users[u].reset_verified]_vars

\* C6 witness: a setNewPassword has just replaced the password of a user who
\* was logged in, and the row of that user is gone
C6_Witness ==
    /\ last.op = "setNewPassword" /\ last.res = "ok" /\ last.old # 0
    /\ RowsOf(tokens, last.uid) = {}
    /\ users[last.uid].hashed_password = hash_password("Passw0rd2")
    /\ ~users[last.uid].reset_verified

\* the reset sub-state of a users row
ResetState(row) ==
    IF row.reset_verified THEN "reset-verified"
    ELSE IF row.reset_code # NULL THEN "code-issued"
    ELSE "no-pending-reset"

\* the reset sub-state of the id u in the table us; an id with no row yet is
\* where a new account starts
ResetStateOf(us, u) ==
    IF IsUser(us, u) THEN ResetState(us[u]) ELSE "no-pending-reset"

\* C7: in every step and for every user, the reset sub-state changes only to
\* code-issued by a successful forgotPassword for that user, from code-issued
\* to reset-verified by a successful verifyResetCode for that user, or from
\* reset-verified to no-pending-reset by a successful setNewPassword for that
\* user; a password hash changes only from reset-verified by setNewPassword;
\* and a successful forgotPassword leaves the user in code-issued with
\* reset_verified false, the code just issued and its expiry counted from now.
C7_ResetSubState ==
    [][\A u \in Ids : IsUser(users', u) =>
         LET before == ResetStateOf(users, u)
             after == ResetStateOf(users', u)
             by(op) == last'.op = op /\ last'.res = "ok" /\ last'.uid = u
         IN  /\ before # after =>
                  \/ after = "code-issued" /\ by("forgotPassword")
                  \/ /\ before = "code-issued" /\ after = "reset-verified"
                     /\ by("verifyResetCode")
                  \/ /\ before = "reset-verified" /\ after = "no-pending-reset"
                     /\ by("setNewPassword")
             /\ (/\ IsUser(users, u)
                 /\ users'[u].hashed_password # users[u].hashed_password)
                  => before = "reset-verified" /\ by("setNewPassword")
             /\ by("forgotPassword") =>
                  /\ after = "code-issued"
                  /\ ~users'[u].reset_verified
                  /\ users'[u].reset_code = last'.arg
                  /\ users'[u].reset_expires_at = now + CodeTtl]_vars

\* C7 witness: a setNewPassword has just taken a user from reset-verified
\* back to no-pending-reset while the other user is in code-issued
C7_Witness ==
    /\ last.op = "setNewPassword" /\ last.res = "ok"
    /\ ResetStateOf(users, last.uid) = "no-pending-reset"
    /\ \E w \in Live(users) : w # last.uid /\ ResetState(users[w]) = "code-issued"

\* login requests in flight for the user u that read no refresh-token row and
\* so are going to insert one
LoginInserts(u) ==
    {p \in inflight : p.op = "login" /\ p.uid = u /\ p.existing = 0}

\* C11: of the login requests of one user that are in flight together at most
\* one is going to insert a row, no login write is turned down by the
\* uniqueness constraint on user_id, and after a login write the user owns
\* exactly one row.
C11_AtomicUpsert ==
    /\ \A u \in Ids : Cardinality(LoginInserts(u)) <= 1
    /\ last.op = "loginWrite" =>
         /\ last.res # "integrity_error"
         /\ last.res = "ok" => Cardinality(RowsOf(tokens, last.uid)) = 1

\* C12: no step of register, resendCode, verifyEmail, login, refresh,
\* forgotPassword, verifyResetCode, setNewPassword, the password changes,
\* Google sign-in, sign-out or the profile update takes is_verified of a user
\* from true to false, and a password account comes to be verified only in a
\* step of a successful verifyEmail for it, whose code is the one the account
\* held and which empties the slot; a password account is never created
\* verified.
C12_VerifiedOneWay ==
    [][\A u \in Ids :
         /\ (IsUser(users, u) /\ users[u].is_verified /\ IsUser(users', u))
              => users'[u].is_verified
         /\ (/\ IsUser(users', u)
             /\ users'[u].provider = ProviderLocal
             /\ users'[u].is_verified
             /\ ~(IsUser(users, u) /\ users[u].is_verified))
              => /\ IsUser(users, u)
                 /\ last'.op = "verifyEmail" /\ last'.res = "ok" /\ last'.uid = u
                 /\ users[u].verification_code = last'.arg
                 /\ users'[u].verification_code = NULL]_vars

\* C12 witness: a verified password account has since reset its password and
\* asked for another reset code, and is still verified
C12_Witness ==
    \E u \in Live(users) :
        /\ users[u].provider = ProviderLocal
        /\ users[u].is_verified
        /\ users[u].hashed_password = hash_password("Passw0rd2")
        /\ users[u].reset_code # NULL

\* password accounts that hold the email of the Google id token idt
LocalOwners(idt) ==
    {u \in ByEmail(users, NormalizeEmail(idt.email)) :
        users[u].provider = ProviderLocal}

\* C13: no step changes the provider of a user, and a Google sign-in with a
\* valid token whose email is that of a password account is answered with the
\* provider conflict and writes nothing: users, refresh-token rows and the
\* tokens issued are as before.
C13_ProviderFixed ==
    [][/\ \A u \in Ids :
            IsUser(users, u) /\ IsUser(users', u)
            => users'[u].provider = users[u].provider
       /\ \A idt \in AccountRequests.googleIdTokens,
             name \in AccountRequests.googleNames :
            (/\ LocalOwners(idt) # {}
             /\ Respond(AccountRequests, "google",
                        google_sign_in(idt, name, FreshId)))
            => /\ last'.res = "provider_conflict"
               /\ users' = users /\ tokens' = tokens
               /\ access' = access /\ ntok' = ntok]_vars

\* C13 witness: a Google sign-in has just been turned down for the email of a
\* password account, which holds no Google field, while a Google account exists
C13_Witness ==
    /\ last.op = "google" /\ last.res = "provider_conflict"
    /\ users[last.uid].provider = ProviderLocal
    /\ users[last.uid].google_sub = NoStr
    /\ \E g \in Live(users) : users[g].provider = ProviderGoogle

\* the Google accounts
GoogleUsers == {u \in Live(users) : users[u].provider = ProviderGoogle}

\* the spellings of the email of the user g
EmailsOf(g) == {e \in RawEmails : NormalizeEmail(EmailStr(e)) = users[g].email}

\* C14: in every reachable state a Google account has no password hash and a
\* password account has one, and for a Google account every login,
\* forgotPassword, verifyResetCode, setNewPassword and authenticated password
\* change (auth reset-password, users update-password), with a valid access
\* token, is refused.
C14_PasswordOnlyLocal ==
    /\ \A u \in Live(users) :
         (users[u].provider = ProviderGoogle) <=> (users[u].hashed_password = NoHash)
    /\ \A g \in GoogleUsers :
         /\ \A e \in EmailsOf(g), password \in Passwords, ip \in Ips,
               device \in Devices :
                login_user(e, password, ip, device).res # "ok"
         /\ \A e \in EmailsOf(g), code \in Codes :
                forgot_password(e, code).res # "ok"
         /\ \A code \in Codes :
                /\ verify_forgot_password_otp(code, g).res # "ok"
                /\ g \notin ResetCodeMatches(code)
         /\ \A password \in Passwords :
                /\ set_new_password(password, g).res # "ok"
                /\ g \notin ResetVerifiedUsers
         /\ \A old_password \in Passwords, password \in Passwords :
                /\ reset_password(old_password, password, g, FALSE).res # "ok"
                /\ update_password(g, old_password, password, g, FALSE).res
                       # "ok"

\* C14 witness: a Google account holds a valid access token, its password
\* change is refused, and a password account exists beside it
C14_Witness ==
    \E g \in GoogleUsers :
        /\ get_current_user(g, FALSE) = "ok"
        /\ EmailsOf(g) # {}
        /\ reset_password("Passw0rd1", "Passw0rd2", g, FALSE).res = "google_account"
        /\ update_password(g, "Passw0rd1", "Passw0rd2", g, FALSE).res
               = "incorrect_password"
        /\ \E u \in Live(users) : users[u].hashed_password # NoHash

\* C15: in every reachable state no two users have the same username and no
\* two users have emails that are equal once letter case is ignored.
C15_UniqueNames ==
    \A i, j \in Live(users) :
        i # j => /\ users[i].username # users[j].username
                 /\ Lower(users[i].email) # Lower(users[j].email)

\* C15 witness: a Google sign-in was given the generated username bob_1
\* because bob was taken, and the owner of bob has since renamed to ann
C15_Witness ==
    \E i, j \in Live(users) :
        /\ users[i].username = <<<<"b", "o", "b">>, 1>>
        /\ users[i].provider = ProviderGoogle
        /\ users[j].username = UsernameAnn
        /\ users[j].provider = ProviderLocal

\* users that hold the email or the username of the row a registration in
\* flight is about to insert
RegisterConflicts(p) ==
    {u \in Live(users) : \/ users[u].email = p.row.email
                         \/ users[u].username = p.row.username}

\* C16: with registrations in flight that all found their email free, no two
\* users ever share an email or a username; the write of a registration whose
\* email or username another one has inserted meanwhile is turned down by the
\* uniqueness constraint and persists nothing, and any other write inserts
\* exactly its row.
C16_ConcurrentRegister ==
    /\ [](\A i, j \in Live(users) :
            i # j => /\ users[i].email # users[j].email
                     /\ users[i].username # users[j].username)
    /\ [][\A p \in inflight :
            RegisterWriteOf(ConcurrentRequests, p) =>
              IF RegisterConflicts(p) # {}
              THEN /\ last'.res = "integrity_error"
                   /\ users' = users /\ tokens' = tokens
              ELSE /\ last'.res = "ok"
                   /\ users' = [users EXCEPT ![last'.uid] = p.row]
                   /\ users[last'.uid] = Unused]_vars

\* C16 witness: the write of a registration has just been turned down by the
\* constraint: the account that took its email or username was inserted
\* after this registration had found the email free
C16_Witness ==
    /\ last.op = "registerWrite" /\ last.res = "integrity_error"
    /\ Cardinality(Live(users)) = 1

\* the spellings of the email of the user u that differ from it at most in
\* letter case and surrounding blanks
Spellings(u) == {e \in RawEmails : NormalizeEmail(e) = users[u].email}

\* C17: in every reachable state, for every user and every spelling of its
\* email, each request that looks a user up by email resolves that user:
\* register, resendCode, login, forgotPassword and, for a valid id token of an
\* accepted issuer, Google sign-in.
C17_EmailLookupNormalized ==
    \A u \in Live(users) : \A e \in Spellings(u) :
        /\ \A username \in Usernames, password \in Passwords, code \in Codes :
               register_user(username, e, password, code, FreshId).uid = u
        /\ \A code \in Codes : resend_verification_code(e, code).uid = u
        /\ \A password \in Passwords, ip \in Ips, device \in Devices :
               login_user(e, password, ip, device).uid = u
        /\ \A code \in Codes : forgot_password(e, code).uid = u
        /\ \A idt \in GoogleIdTokens, name \in GoogleNames :
               (idt.valid /\ idt.iss \in GoogleIssuers /\ idt.email = e)
               => google_sign_in(idt, name, FreshId).uid = u

\* C18: a register request for the email of an existing account creates no
\* account; if the account is unverified the request succeeds and writes
\* only the code just generated and an expiry one code lifetime from now
\* into its verification slot, after which verifyEmail turns the replaced
\* code down (when the new code differs from it); if the account is verified
\* the request fails and writes nothing.
C18_ReRegister ==
    [][\A username \in VerifyRequests.usernames,
          rawEmail \in VerifyRequests.registerEmails,
          password \in VerifyRequests.registerPasswords,
          code \in VerifyRequests.verificationCodes :
         LET out == register_user(username, rawEmail, password, code, FreshId)
             held == ByEmail(users, NormalizeEmail(EmailStr(rawEmail)))
         IN  (held # {} /\ Respond(VerifyRequests, "register", out)) =>
               \A u \in held :
                 IF users[u].is_verified
                 THEN /\ out.res = "email_already_verified"
                      /\ users' = users /\ tokens' = tokens
                 ELSE \A replaced \in {users[u].verification_code} :
                          /\ out.res = "ok"
                          /\ users' = [users EXCEPT
                                         ![u].verification_code = code,
                                         ![u].verification_expires_at =
                                             now + CodeTtl]
                          /\ tokens' = tokens
                          /\ code # replaced =>
                               (\A user \in First(VerifyEmailMatches(replaced)) :
                                  verify_email(replaced, user).res
                                      = "invalid_verification_code")']_vars

\* after the step the user u owns no refresh-token row and a refresh request
\* with the value of the row it owned before is refused as invalid
RowRemoved(u) ==
    /\ RowsOf(tokens', u) = {}
    /\ \A r \in RowsOf(tokens, u) :
         (RefreshResults(r.token) = {"invalid_refresh_token"})'

\* C19: a sign-out that finds the row of its token, a successful account
\* deletion and a successful setNewPassword each leave the user without a
\* refresh-token row, and a refresh with the value held before is refused;
\* a value that is in no row is refused and never comes back into a row, so
\* only a new login gives the user a usable token; and no row ever references
\* a user that does not exist.
C19_RowRemoved ==
    /\ [](/\ \A r \in tokens : r.user_id \in Live(users)
          /\ \A v \in 1..ntok :
               RowsWithToken(tokens, v) = {}
               => RefreshResults(v) = {"invalid_refresh_token"})
    /\ [][/\ \A refresh_token \in TokenValues :
             \A rt \in RowsWithToken(tokens, refresh_token) :
               Respond(SessionRequests, "signOut",
                       logout_user(refresh_token, rt))
               => RowRemoved(rt.user_id) /\ users' = users
          /\ \A u \in Ids :
               (IsUser(users, u) /\ users'[u] = Deleted) => RowRemoved(u)
          /\ \A password \in SessionRequests.newPasswords :
             \A w \in First(ResetVerifiedUsers) :
               LET out == set_new_password(password, w)
               IN  (out.res = "ok" /\ Respond(SessionRequests, "setNewPassword", out))
                   => RowRemoved(w)
          /\ \A v \in 1..ntok :
               RowsWithToken(tokens, v) = {} => RowsWithToken(tokens', v) = {}]_vars

\* C19 witness: an account that had signed in was deleted, a password account
\* that had logged in has completed a password reset and owns no row, and
\* every value issued so far is refused
C19_Witness ==
    /\ \E u \in Ids : users[u] = Deleted
    /\ \E w \in Live(users) :
         /\ users[w].hashed_password = hash_password("Passw0rd2")
         /\ users[w].last_login_ip # NoStr
         /\ RowsOf(tokens, w) = {}
    /\ ntok >= 2
    /\ \A v \in 1..ntok : RefreshResults(v) = {"invalid_refresh_token"}

\* C20: every signOut request, whether or not a row holds the presented
\* token, answers with success and commits; it removes exactly the rows whose
\* value is the presented token, so the rows of other users stay, and it
\* writes no user record; and a second signOut with the same token finds no
\* row, succeeds as well and changes neither table.
C20_SignOutIdempotent ==
    [][\A refresh_token \in TokenValues :
       \A rt \in FirstRow(RowsWithToken(tokens, refresh_token)) :
         LET out == logout_user(refresh_token, rt)
         IN  Respond(SessionRequests, "signOut", out)
             => /\ out.res = "ok"
                /\ UniqueConstraints(out.users, out.tokens)
                /\ users' = users
                /\ tokens' = tokens \ RowsWithToken(tokens, refresh_token)
                /\ \A r \in tokens : rt = NoRow \/ r.user_id # rt.user_id
                                      => r \in tokens'
                /\ (/\ FirstRow(RowsWithToken(tokens, refresh_token)) = {NoRow}
                    /\ logout_user(refresh_token, NoRow).res = "ok"
                    /\ logout_user(refresh_token, NoRow).users = users
                    /\ logout_user(refresh_token, NoRow).tokens = tokens)']_vars

\* C20 witness: a password account that had logged in and has not reset its
\* password owns no row any more, so it signed out, while another account
\* still owns its row and a signOut with the token of the first finds no row
C20_Witness ==
    \E w \in Live(users), g \in Live(users) :
        /\ w # g
        /\ users[w].hashed_password = hash_password("Passw0rd1")
        /\ users[w].last_login_ip # NoStr
        /\ ~users[w].reset_verified /\ users[w].reset_code = NULL
        /\ RowsOf(tokens, w) = {}
        /\ RowsOf(tokens, g) # {}
        /\ \E v \in 1..ntok : RowsWithToken(tokens, v) = {}

\* the accounts whose is_active flag is false
DisabledUsers == {u \in Live(users) : ~users[u].is_active}

\* what the requests of the credentialed operations that resolve to user u
\* would be answered in this state, by the check that rejects them first:
\* byProvider are the requests that look at the provider of the account before
\* its flag, byExpiry those that look at the expiry of the presented token
\* first, direct the rest
DisabledAnswers(u) ==
    LET emails == {e \in RawEmails : get_user_by_email(EmailStr(e)) = u}
        idts == {t \in GoogleIdTokens :
                   /\ t.valid /\ t.iss \in GoogleIssuers
                   /\ NormalizeEmail(t.email) = users[u].email}
        bearers == {u} \cap access
    IN  [ byProvider |->
            {login_user(e, p, ip, d) :
                 e \in emails, p \in Passwords, ip \in Ips, d \in Devices}
            \cup {forgot_password(e, c) : e \in emails, c \in Codes}
            \cup {google_sign_in(t, n, FreshId) : t \in idts, n \in GoogleNames}
            \cup {reset_password(o, p, b, FALSE) :
                      o \in Passwords, p \in Passwords, b \in bearers},
          byExpiry |->
            {refresh_access_token(rt.token, rt) : rt \in RowsOf(tokens, u)}
            \cup {reset_password(o, p, b, TRUE) :
                      o \in Passwords, p \in Passwords, b \in bearers}
            \cup {update_password(u, o, p, b, TRUE) :
                      o \in Passwords, p \in Passwords, b \in bearers}
            \cup {update_full_profile(u, UsernameAnn, FALSE, b, TRUE) :
                      b \in bearers}
            \cup {delete_user_account(u, b, TRUE) : b \in bearers},
          direct |->
            {verify_forgot_password_otp(c, u) :
                 c \in {c \in Codes : u \in ResetCodeMatches(c)}}
            \cup {set_new_password(p, u) :
                      p \in {p \in Passwords : u \in ResetVerifiedUsers}}
            \cup {update_password(u, o, p, b, FALSE) :
                      o \in Passwords, p \in Passwords, b \in bearers}
            \cup {update_full_profile(u, UsernameAnn, FALSE, b, FALSE) :
                      b \in bearers}
            \cup {delete_user_account(u, b, FALSE) : b \in bearers} ]

\* the answer is an error, carries no refresh token and writes nothing
Refused(out) ==
    /\ out.res # "ok" /\ out.tok = 0
    /\ out.users = users /\ out.tokens = tokens

C22_AllOrNothing ==
    [][/\ (last'.op # "other" /\ last'.op # "googleWrite" /\ last'.res # "ok")
            => users' = users /\ tokens' = tokens
       /\ \A p \in inflight :
            (/\ GoogleTokenWriteOf(CommitRequests, p)
             /\ last'.res # "ok"
             /\ p.created)
            => ~IsUser(users', p.uid)]_vars

\* the id tokens that verify, come from Google and carry an email that no
\* account has
NewGoogleEmails(D) ==
    {idt \in D.googleIdTokens :
        /\ idt.valid /\ idt.iss \in GoogleIssuers
        /\ NormalizeEmail(idt.email) # <<>>
        /\ ByEmail(users, NormalizeEmail(idt.email)) = {}}

\* C23: a Google sign-in for an email with no account succeeds; it adds
\* exactly one user, with the normalised email, provider GOOGLE, is_verified
\* and is_active true and no password hash, and changes no other user; it
\* leaves an access token for that user with the caller and exactly one
\* refresh-token row for it, holding the value returned, a value never issued
\* before, and the expiry a password login would write, and changes no other
\* row.
C23_GoogleCreates ==
    [][\A idt \in NewGoogleEmails(AccountRequests),
         name \in AccountRequests.googleNames :
         Respond(AccountRequests, "google", google_sign_in(idt, name, FreshId))
         => /\ last'.op = "google" /\ last'.res = "ok"
            /\ \E u \in Ids :
                 /\ last'.uid = u
                 /\ ~IsUser(users, u)
                 /\ Live(users') = Live(users) \cup {u}
                 /\ \A w \in Live(users) : users'[w] = users[w]
                 /\ users'[u].email = NormalizeEmail(idt.email)
                 /\ users'[u].provider = ProviderGoogle
                 /\ users'[u].is_verified /\ users'[u].is_active
                 /\ users'[u].hashed_password = NoHash
                 /\ u \in access'
                 /\ tokens' = tokens \cup
                        {[user_id |-> u, token |-> last'.tok,
                          expires_at |-> now + RefreshTtl]}
                 /\ Cardinality(RowsOf(tokens', u)) = 1
                 /\ last'.tok > ntok /\ ntok' = last'.tok]_vars

\* C23 witness: a Google sign-in has just created the second account, which
\* is a Google account with one refresh-token row, next to a password account
C23_Witness ==
    /\ last.op = "google" /\ last.res = "ok"
    /\ users[last.uid].provider = ProviderGoogle
    /\ users[last.uid].hashed_password = NoHash
    /\ users[last.uid].last_google_id_token # NoStr
    /\ \E r \in tokens : r.user_id = last.uid /\ r.token = last.tok /\ ntok = r.token
    /\ \E w \in Live(users) : users[w].provider = ProviderLocal

\* the base name of the claim: the display name the request asserts, without
\* surrounding blanks, and the local part of the email if it asserts none
BaseName(idt, name) ==
    IF name # NoStr /\ Strip(name) # <<>> THEN Strip(name)
    ELSE LocalPart(NormalizeEmail(idt.email))

\* C24: the username of a new Google account is the base name if no user has
\* it, and otherwise base_k for the smallest k >= 1 such that no user has
\* base_k.
C24_UsernameProbe ==
    [][\A idt \in NewGoogleEmails(GoogleRequests),
         name \in GoogleRequests.googleNames :
         Respond(GoogleRequests, "google", google_sign_in(idt, name, FreshId))
         => \E k \in 0 .. MaxUsers :
              /\ users'[last'.uid].username = <<BaseName(idt, name), k>>
              /\ ByUsername(users, <<BaseName(idt, name), k>>) = {}
              /\ \A j \in 0 .. (k - 1) :
                   ByUsername(users, <<BaseName(idt, name), j>>) # {}]_vars

\* the id tokens whose assertion cannot be verified: the token does not
\* verify (malformed, bad signature, wrong audience), names an unexpected
\* issuer or carries no email
Unverifiable(idt) ==
    \/ ~idt.valid
    \/ idt.iss \notin GoogleIssuers
    \/ NormalizeEmail(idt.email) = <<>>

\* C25: a Google sign-in whose assertion cannot be verified creates and
\* modifies no user, writes no refresh-token row, issues no token, and is
\* answered with the one generic invalid-Google-token error whatever the
\* reason.
C25_GenericError ==
    [][\A idt \in GoogleRequests.googleIdTokens,
         name \in GoogleRequests.googleNames :
         (/\ Unverifiable(idt)
          /\ Respond(GoogleRequests, "google",
                     google_sign_in(idt, name, FreshId)))
         => /\ users' = users /\ tokens' = tokens
            /\ access' = access /\ ntok' = ntok
            /\ last'.tok = 0
            /\ last'.res = "invalid_google_token"]_vars

\* the calls of the four /users/{user_id} routes in the current state, each
\* with its path user id, the user of its token and what the handler answers
ScopedCalls ==
    LET D == ScopedRequests
        Call(op, caller, out) ==
            [op |-> op, user_id |-> caller[1], bearer |-> caller[2],
             expired |-> caller[3], out |-> out]
    IN  {Call("getProfile", c, get_user_profile(c[1], c[2], c[3])) :
            c \in D.callers}
        \cup {Call("updateProfile", c[1],
                   update_full_profile(c[1][1], c[2], c[3], c[1][2], c[1][3])) :
                c \in D.callers \X D.profileUsernames \X D.profileImages}
        \cup {Call("updatePassword", c[1],
                   update_password(c[1][1], c[2], c[3], c[1][2], c[1][3])) :
                c \in D.callers \X D.oldPasswords \X D.newPasswords}
        \cup {Call("deleteAccount", c,
                   delete_user_account(c[1], c[2], c[3])) :
                c \in Ids \X (Ids \cup {0}) \X BOOLEAN}

\* the token of the call is a good one, but its user is gone or disabled
TokenUserGone(c) ==
    /\ c.bearer \in access
    /\ ~c.expired
    /\ \/ ~IsUser(users, c.bearer)
       \/ ~users[c.bearer].is_active

\* C26: get profile, update profile, update password and delete account act
\* only on the user of the caller's access token: a path user id that differs
\* from the token's user is answered Forbidden and writes nothing, a token
\* whose user no longer exists or is disabled is rejected by the token check
\* with nothing written, and no call writes the row or the refresh token of
\* any user but the token's.
C26_OwnUserOnly ==
    \A c \in ScopedCalls :
        /\ (get_current_user(c.bearer, c.expired) = "ok"
                /\ c.bearer # c.user_id)
           => (/\ c.out.res = "unauthorized_access"
               /\ c.out.users = users
               /\ c.out.tokens = tokens)
        /\ TokenUserGone(c)
           => (/\ c.out.res \in {"token_user_not_found", "disabled"}
               /\ c.out.users = users
               /\ c.out.tokens = tokens)
        /\ \A w \in Ids \ {c.bearer} :
               /\ c.out.users[w] = users[w]
               /\ RowsOf(c.out.tokens, w) = RowsOf(tokens, w)

\* a call of the one account with the path of the other has just been
\* refused, and the other account is deleted while its token is still good
C26_Witness ==
    /\ last.res = "unauthorized_access"
    /\ \E u \in access : users[u] = Deleted

\* the Google account that holds the email of a request, if there is one
GoogleAccountOf(rawEmail) ==
    {u \in ByEmail(users, NormalizeEmail(EmailStr(rawEmail))) :
        users[u].provider = ProviderGoogle}

\* C27: register with the email of a Google account fails and leaves every
\* user and refresh-token row as it was, the account still with provider
\* GOOGLE, no password hash and no verification code; a login with that
\* email fails whatever the password, issues no token and writes nothing.
C27_GoogleEmailTaken ==
    [][/\ \A username \in ProviderRequests.usernames,
            rawEmail \in ProviderRequests.registerEmails,
            password \in ProviderRequests.registerPasswords,
            code \in ProviderRequests.verificationCodes :
            (/\ GoogleAccountOf(rawEmail) # {}
             /\ Respond(ProviderRequests, "register",
                        register_user(username, rawEmail, password, code,
                                      FreshId)))
            => /\ last'.op = "register" /\ last'.res # "ok"
               /\ users' = users /\ tokens' = tokens
               /\ access' = access /\ ntok' = ntok
               /\ \A u \in GoogleAccountOf(rawEmail) :
                    /\ users'[u].provider = ProviderGoogle
                    /\ users'[u].hashed_password = NoHash
                    /\ users'[u].verification_code = NULL
       /\ \A rawEmail \in ProviderRequests.loginEmails,
            password \in ProviderRequests.loginPasswords,
            ip \in Ips, device \in Devices :
            (/\ GoogleAccountOf(rawEmail) # {}
             /\ LoginRequest(ProviderRequests, rawEmail, password, ip, device))
            => /\ last'.op = "login" /\ last'.res # "ok"
               /\ last'.tok = 0
               /\ users' = users /\ tokens' = tokens
               /\ access' = access /\ ntok' = ntok]_vars

\* register has just been refused for the email of a Google account that has
\* signed in and holds a refresh token
C27_Witness ==
    /\ last.op = "register" /\ last.res = "email_already_verified"
    /\ users[last.uid].provider = ProviderGoogle
    /\ RowsOf(tokens, last.uid) # {}

\* C28: no step of a notification's delivery, the failed attempts and the
\* exception after the last one included, changes a user, a refresh-token
\* row or an issued token, or the response the caller of the operation was
\* given.
C28_DeliveryFailureContained ==
    [][smtp' # smtp
       => /\ users' = users /\ tokens' = tokens
          /\ access' = access /\ ntok' = ntok
          /\ last' = last]_vars

\* the password-changed notification of a setNewPassword that was answered
\* with success has failed for good, and the new password is in place
C28_Witness ==
    /\ smtp.pc = "raised"
    /\ smtp.msg.kind = "password_changed"
    /\ last.op = "setNewPassword" /\ last.res = "ok"
    /\ users[last.uid].hashed_password = hash_password("Passw0rd2")

\* the write that the task t of the operation answered by resp announces is
\* in the tables us, ts; before holds the users before the operation
WriteCommitted(t, resp, before, us, ts) ==
    CASE t.kind = "verification_code" ->
           /\ IsUser(us, resp.uid)
           /\ us[resp.uid].email = t.to
           /\ us[resp.uid].verification_code = t.arg
      [] t.kind \in {"login_alert", "new_device"} ->
           /\ IsUser(us, resp.uid)
           /\ us[resp.uid].email = t.to
           /\ us[resp.uid].last_login_ip \in Ips
           /\ us[resp.uid].last_login_device \in Devices
           /\ \E r \in ts : r.user_id = resp.uid /\ r.token = resp.tok
      [] t.kind = "account_deleted" ->
           /\ IsUser(before, resp.uid)
           /\ before[resp.uid].email = t.to
           /\ us[resp.uid] = Deleted
           /\ RowsOf(ts, resp.uid) = {}
      [] OTHER -> FALSE

SendEmailBounded(call) ==
    LET n == Len(call.outcomes)
    IN  /\ n <= call.retries + 1
        /\ call.retries = DefaultRetries => n <= 3
        /\ \A k \in 1 .. (n - 1) : ~call.outcomes[k]
        /\ (n > 0 /\ call.outcomes[n]) => call.pc = "returned"
        /\ call.pc = "attempt" => call.sleeps = n
        /\ call.pc \in {"sleep", "returned", "raised"} => call.sleeps = n - 1
        /\ call.pc = "sleep" => n <= call.retries
        /\ call.pc = "returned" => n > 0 /\ call.outcomes[n]
        /\ call.pc = "raised" => n = call.retries + 1 /\ ~call.outcomes[n]

\* C30: a _send_email call makes at most retries + 1 attempts (3 with the
\* default), none after a successful one, sleeps exactly once between two
\* consecutive attempts and not after the last, and always ends: it returns
\* after a successful attempt or raises after attempt retries + 1 has failed.
C30_SendEmailTerminates ==
    /\ [](smtp.pc # "idle" => SendEmailBounded(smtp))
    /\ (smtp.pc \in {"attempt", "sleep"}) ~> (smtp.pc \in {"returned", "raised"})

\* a call with the default retries has failed three times, with two sleeps
C30_Witness ==
    /\ smtp.pc = "raised"
    /\ smtp.retries = DefaultRetries
    /\ smtp.outcomes = <<FALSE, FALSE, FALSE>>
    /\ smtp.sleeps = 2

\* the sign-in requests whose token verifies and names an email
ProbingRequests ==
    {r \in GoogleRequests.googleIdTokens \X GoogleRequests.googleNames :
        ~Unverifiable(r[1])}

\* C31: whatever users exist, the username probing loop of Google sign-in
\* ends after at most (number of users + 1) uniqueness queries, and the
\* candidate it ends with is a username no user has.
C31_ProbeBounded ==
    \A r \in ProbingRequests :
        LET start == ProbeStart(r[1], r[2])
        IN  /\ ProbeQueries(start.base_username, start.candidate, 1)
                   <= Cardinality(Live(users)) + 1
            /\ ByUsername(users, ProbeUsername(start.base_username,
                                               start.candidate, 1)) = {}

\* two users hold bob and bob_1, so that the loop for the display name bob
\* runs three queries and ends with bob_2
C31_Witness ==
    /\ Cardinality(Live(users)) = 2
    /\ \E r \in ProbingRequests :
          LET start == ProbeStart(r[1], r[2])
          IN  /\ ProbeQueries(start.base_username, start.candidate, 1) = 3
              /\ ProbeUsername(start.base_username, start.candidate, 1)
                     = <<start.base_username, 2>>

\* C32: setNewPassword changes the password of the user whose reset code its
\* caller has verified, and of no other: the caller who has just been told
\* that the code of user w is verified and then sets a new password changes
\* the password of w and leaves every other user as it was.
C32_OnlyTheVerifier ==
    [][(/\ last.op = "verifyResetCode" /\ last.res = "ok"
        /\ last'.op = "setNewPassword" /\ last'.res = "ok")
       => /\ last'.uid = last.uid
          /\ \A w \in Ids \ {last.uid} : users'[w] = users[w]]_vars

\* C33: a verifyEmail call changes at most one user, and it verifies only
\* the account its code was issued to: for every unverified user w that holds
\* the submitted code, a call made for w marks no user other than w as
\* verified.
C33_OnlyTheAddressee ==
    [][\A code \in VerifyRequests.submittedCodes :
         \A user \in First(VerifyEmailMatches(code)) :
           Respond(VerifyRequests, "verifyEmail", verify_email(code, user))
           => /\ Cardinality({u \in Ids : users'[u] # users[u]}) <= 1
              /\ \A w \in VerifyEmailMatches(code) :
                   \A u \in Live(users) \ {w} :
                      ~users[u].is_verified => ~users'[u].is_verified]_vars

\* C34: the reset-verified authorisation ends with the reset code: once the
\* time is past the reset_expires_at of a reset-verified user, setNewPassword
\* does not change that user's password.
C34_ExpiredAuthorisation ==
    [][\A password \in DisabledRequests.newPasswords :
         \A user \in ResetVerifiedUsers :
           (/\ users[user].reset_expires_at # NULL
            /\ now > users[user].reset_expires_at
            /\ Respond(DisabledRequests, "setNewPassword",
                       set_new_password(password, user)))
           => users'[user].hashed_password = users[user].hashed_password]_vars

\* C35: a user is reset-verified only while its row holds a reset code, the
\* very code that verifyResetCode validated: after a verifyResetCode that
\* succeeded, served at once or with other requests between its read and its
\* write, the user it answered for is reset-verified only with the code that
\* was submitted.
C35_VerifiedCodeIsStored ==
    /\ \A u \in ResetVerifiedUsers : users[u].reset_code # NULL
    /\ (/\ last.op \in {"verifyResetCode", "verifyResetWrite"}
        /\ last.res = "ok"
        /\ IsUser(users, last.uid)
        /\ users[last.uid].reset_verified)
       => users[last.uid].reset_code = last.arg

\* C36: in every state, also when a resendCode or a re-registration has
\* read the row before a verifyEmail and writes after it, a user whose
\* is_verified is true has no verification code and no expiry.
C36_VerifiedHasNoCode ==
    \A u \in Live(users) :
        users[u].is_verified
        => /\ users[u].verification_code = NULL
           /\ users[u].verification_expires_at = NULL

\* the unverified account that holds the email of a register request
UnverifiedAccountOf(rawEmail) ==
    {u \in ByEmail(users, NormalizeEmail(EmailStr(rawEmail))) :
        ~users[u].is_verified}

\* C37: a register call with the email of an unverified account succeeds for
\* that account and changes only its verification code and expiry: id,
\* username, password hash and provider stay, no user is added and no other
\* row changes.  The password hash is the one of the registration that
\* created the account from then on, so login accepts that password only.
C37_ReRegisterKeepsAccount ==
    [][/\ \A username \in TwoAccountRequests.usernames,
            rawEmail \in TwoAccountRequests.registerEmails,
            password \in TwoAccountRequests.registerPasswords,
            code \in TwoAccountRequests.verificationCodes :
            /\ (/\ UnverifiedAccountOf(rawEmail) # {}
                /\ Respond(TwoAccountRequests, "register",
                           register_user(username, rawEmail, password, code,
                                         FreshId)))
               => /\ last'.op = "register" /\ last'.res = "ok"
                  /\ last'.uid \in UnverifiedAccountOf(rawEmail)
                  /\ users' = [users EXCEPT
                                 ![last'.uid].verification_code = code,
                                 ![last'.uid].verification_expires_at =
                                     now + CodeTtl]
                  /\ tokens' = tokens /\ access' = access
            /\ (/\ ByEmail(users, NormalizeEmail(EmailStr(rawEmail))) = {}
                /\ FreshId # 0
                /\ Respond(TwoAccountRequests, "register",
                           register_user(username, rawEmail, password, code,
                                         FreshId))
                /\ last'.res = "ok")
               => /\ last'.uid = FreshId
                  /\ users'[FreshId].username = StripUsername(username)
                  /\ users'[FreshId].hashed_password = hash_password(password)
       /\ \A u \in Live(users) :
            /\ IsUser(users', u)
            /\ users'[u].username = users[u].username
            /\ users'[u].hashed_password = users[u].hashed_password
            /\ users'[u].provider = users[u].provider
       /\ \A rawEmail \in TwoAccountRequests.loginEmails,
            password \in TwoAccountRequests.loginPasswords,
            ip \in Ips, device \in Devices :
            LoginRequest(TwoAccountRequests, rawEmail, password, ip, device)
            => (last'.res = "ok"
                <=> \E u \in ByEmail(users, NormalizeEmail(EmailStr(rawEmail))) :
                      /\ users[u].is_verified
                      /\ users[u].hashed_password = hash_password(password))]_vars

\* register has just given the first account a new code while the second
\* account exists, so the call was not the one that created the first
C37_Witness ==
    /\ last.op = "register" /\ last.res = "ok" /\ last.uid = 1
    /\ IsUser(users, 2)
    /\ users[1].verification_code = last.arg
    /\ ~users[1].is_verified

\* C38: a successful password change of a logged-in user, through
\* /auth/reset-password or /users/{user_id}/password, writes the caller's
\* hashed_password and nothing else: the refresh-token table, the caller's
\* reset and verification state and every other user stay as they were, so
\* every refresh token that refresh accepted before the change it accepts
\* after it.
C38_PasswordChangeKeepsSessions ==
    [][(last'.op \in {"changePassword", "updatePassword"} /\ last'.res = "ok")
       => /\ IsUser(users, last'.uid)
          /\ tokens' = tokens
          /\ users' = [users EXCEPT ![last'.uid].hashed_password =
                                       users'[last'.uid].hashed_password]
          /\ \A refresh_token \in TokenValues :
               \A rt \in FirstRow(RowsWithToken(tokens, refresh_token)) :
                 refresh_access_token(refresh_token, rt).res = "ok"
                 => (refresh_access_token(refresh_token, rt).res)' = "ok"]_vars

\* a user who holds a refresh token that refresh accepts, and who has asked
\* for a password reset, has just changed the password while another account
\* exists
C38_Witness ==
    /\ last.op \in {"changePassword", "updatePassword"} /\ last.res = "ok"
    /\ \E r \in RowsOf(tokens, last.uid) :
         refresh_access_token(r.token, r).res = "ok"
    /\ users[last.uid].reset_code # NULL
    /\ \E u \in Live(users) : u # last.uid

\* C39: in every reachable state each refresh-token row belongs to a user
\* that exists and whose is_verified is true; a user that is not verified
\* owns no refresh-token row, and a deleted user has left no row behind.
C39_TokenOwnerVerified ==
    /\ \A r \in tokens :
         IsUser(users, r.user_id) /\ users[r.user_id].is_verified
    /\ \A u \in Live(users) :
         ~users[u].is_verified => RowsOf(tokens, u) = {}
    /\ \A i \in Ids : users[i] = Deleted => RowsOf(tokens, i) = {}

\* a verified user holds a refresh token while a registered user that has
\* not verified its email holds none
C39_Witness ==
    /\ \E r \in tokens : users[r.user_id].is_verified
    /\ \E u \in Live(users) : ~users[u].is_verified /\ RowsOf(tokens, u) = {}
====
